---- MODULE Spec2Model ----
(***************************************************************************)
(* A model of midi-2-synth: the split run (split.py, midi.py, audio.py,    *)
(* beatmap.py, util.py) and the merge run (join.py, merging.py).           *)
(*                                                                         *)
(* Numbers.  Python floats are held as exact fixed-point integers:         *)
(*   - a millisecond value that the code has rounded to 3 decimals (a      *)
(*     ChangeMap key, a segment's start_ms/end_ms) is held in microseconds;*)
(*   - an unrounded time computed from ticks is held as the numerator      *)
(*     sum(delta_ticks * tempo) of the fraction over ticks_per_beat, whose *)
(*     value is microseconds; seconds and milliseconds of the same instant *)
(*     share that numerator;                                               *)
(*   - a BPM rounded to 2 decimals is held in hundredths of a BPM.         *)
(* Python dicts are functions over their keys, so that `k in d` is         *)
(* k \in DOMAIN d.  A value that may be None is a sequence of length 0     *)
(* (None) or 1.                                                            *)
(***************************************************************************)
EXTENDS Integers, Sequences, FiniteSets, TLC

VARIABLES
    tc_args,        \* calculate_time_from_ticks: the call's arguments
    tc_result,      \* calculate_time_from_ticks: <<>> before the call, <<value>> after
    sg_args,        \* create_tempo_segments: the call's arguments
    sg_result,      \* create_tempo_segments: <<>> before the call, <<outcome>> after
    fn_args,        \* generate_segment_filename: the call's arguments
    fn_name,        \* a segment file's name: <<>> before there is one, <<str>> after
    fn_made,        \* whether fn_name was made by generate_segment_filename
    fn_parsed,      \* parse_segment_filename(fn_name): <<>> before the call, <<outcome>> after
    mg_call,        \* the merge run's arguments: entry point, files, base beatmap, output
    mg_pc,          \* where the merge run is
    mg_segments,    \* merge_synth_segments: its segments argument
    mg_segment_data, \* merge_synth_segments: segment_data
    mg_merged,      \* the segments merged into merged_file so far, in merge order
    mg_bookmarks,   \* merged_file.bookmarks: position -> text
    mg_saved,       \* whether merged_file.save_as has written the output
    mg_error,       \* the exception that ended the run, "" for none
    sp_input,       \* the split run's inputs: MIDI file, base beatmap, audio
    sp_pc,          \* where the split run (main in split.py) is
    sp_midi_read,   \* whether MidiFile(args.midi) has been read
    sp_changes,     \* tempo_and_time_changes: <<>> before the extraction, <<outcome>> after
    sp_segments,    \* tempo_segments
    sp_attempts,    \* the calls of create_tempo_segment_with_audio so far, in call order
    sp_successful,  \* successful_variants
    sp_failed,      \* failed_variants
    sp_saved,       \* the segment indices whose beatmap file has been saved
    sp_return,      \* main's return value: <<>> before it returns, <<value>> after
    sp_error,       \* the exception that ended main, "" for none
    tn_args,        \* add_timing_notes: the call's arguments, with the beatmap's difficulties
    tn_result,      \* add_timing_notes: <<>> before the call, <<outcome>> after
    cs_args,        \* create_tempo_segment_with_audio: the segment, and what audio and save do
    cs_result       \* create_tempo_segment_with_audio: <<>> before the call, <<outcome>> after

tc_vars == <<tc_args, tc_result>>
sg_vars == <<sg_args, sg_result>>
fn_vars == <<fn_args, fn_name, fn_made, fn_parsed>>
mg_vars == <<mg_call, mg_pc, mg_segments, mg_segment_data, mg_merged, mg_bookmarks, mg_saved,
            mg_error>>
tn_vars == <<tn_args, tn_result>>
cs_vars == <<cs_args, cs_result>>
sp_vars == <<sp_input, sp_pc, sp_midi_read, sp_changes, sp_segments, sp_attempts,
            sp_successful, sp_failed, sp_saved, sp_return, sp_error>>
vars == <<tc_args, tc_result, sg_args, sg_result, fn_args, fn_name, fn_made, fn_parsed,
          mg_call, mg_pc, mg_segments, mg_segment_data, mg_merged, mg_bookmarks, mg_saved,
          mg_error,
          sp_input, sp_pc, sp_midi_read, sp_changes, sp_segments, sp_attempts,
          sp_successful, sp_failed, sp_saved, sp_return, sp_error,
          tn_args, tn_result, cs_args, cs_result>>

\* What a component's actions leave alone: the other components' variables.
tc_others == <<sg_vars, fn_vars, mg_vars, sp_vars, tn_vars, cs_vars>>
sg_others == <<tc_vars, fn_vars, mg_vars, sp_vars, tn_vars, cs_vars>>
fn_others == <<tc_vars, sg_vars, mg_vars, sp_vars, tn_vars, cs_vars>>
mg_others == <<tc_vars, sg_vars, fn_vars, sp_vars, tn_vars, cs_vars>>
sp_others == <<tc_vars, sg_vars, fn_vars, mg_vars, tn_vars, cs_vars>>
tn_others == <<tc_vars, sg_vars, fn_vars, mg_vars, sp_vars, cs_vars>>
cs_others == <<tc_vars, sg_vars, fn_vars, mg_vars, sp_vars, tn_vars>>

(***************************************************************************)
(* Bounds of the model.                                                    *)
(***************************************************************************)
MaxTick == 4
MaxTempoEvents == 3
MaxFiles == 3
MaxMessages == 2

(***************************************************************************)
(* Generic helpers.                                                        *)
(***************************************************************************)
None == <<>>
Some(v) == <<v>>

MaxOf(S) == CHOOSE m \in S : \A n \in S : n <= m
MinOf(S) == CHOOSE m \in S : \A n \in S : m <= n

\* Sequences over S of length 0..n.
SeqUpTo(S, n) == UNION {[1..k -> S] : k \in 0..n}

\* n / d rounded to the nearest integer for n >= 0, d > 0 and n / d not
\* halfway between two integers.
RoundDiv(n, d) == (2 * n + d) \div (2 * d)

(***************************************************************************)
(* IEEE 754 doubles.                                                       *)
(* Where the rounding of a double decides what the code does (a tie in     *)
(* round() or in a format, a floor at a whole number, a comparison with    *)
(* 0), the model computes the double itself, operation by operation as the *)
(* code does, each result rounded to the nearest double, ties to even.     *)
(* A double is [m, e] with value m * 2^e, m a natural number of 53 bits    *)
(* (or 0); naturals of that size are little-endian sequences of limbs      *)
(* below 2^15.  All doubles here are positive or 0.                        *)
(***************************************************************************)
RECURSIVE pow2(_)
pow2(k) == IF k = 0 THEN 1 ELSE 2 * pow2(k - 1)

RECURSIVE BitLength(_)
BitLength(n) == IF n = 0 THEN 0 ELSE 1 + BitLength(n \div 2)

RECURSIVE BigOfInt(_)
BigOfInt(n) == IF n = 0 THEN <<>> ELSE <<n % 32768>> \o BigOfInt(n \div 32768)

RECURSIVE BigToInt(_)
BigToInt(a) == IF a = <<>> THEN 0 ELSE a[1] + 32768 * BigToInt(Tail(a))

RECURSIVE BigNorm(_)
BigNorm(a) ==
    IF a = <<>> THEN <<>>
    ELSE IF a[Len(a)] = 0 THEN BigNorm(SubSeq(a, 1, Len(a) - 1)) ELSE a

Limb(a, i) == IF i <= Len(a) THEN a[i] ELSE 0

RECURSIVE BigAddFrom(_, _, _, _)
BigAddFrom(a, b, i, carry) ==
    IF i > Len(a) /\ i > Len(b) THEN (IF carry = 0 THEN <<>> ELSE <<carry>>)
    ELSE <<(Limb(a, i) + Limb(b, i) + carry) % 32768>>
         \o BigAddFrom(a, b, i + 1, (Limb(a, i) + Limb(b, i) + carry) \div 32768)

BigAdd(a, b) == BigAddFrom(a, b, 1, 0)

RECURSIVE BigSubFrom(_, _, _, _)
BigSubFrom(a, b, i, borrow) ==
    IF i > Len(a) THEN <<>>
    ELSE <<(Limb(a, i) - Limb(b, i) - borrow) % 32768>>
         \o BigSubFrom(a, b, i + 1, IF Limb(a, i) - Limb(b, i) - borrow < 0 THEN 1 ELSE 0)

\* a - b for a >= b.
BigSub(a, b) == BigNorm(BigSubFrom(a, b, 1, 0))

RECURSIVE BigLessFrom(_, _, _)
BigLessFrom(a, b, i) ==
    IF i = 0 THEN FALSE
    ELSE IF a[i] # b[i] THEN a[i] < b[i] ELSE BigLessFrom(a, b, i - 1)

BigLess(a, b) == IF Len(a) # Len(b) THEN Len(a) < Len(b) ELSE BigLessFrom(a, b, Len(a))

RECURSIVE BigTimesFrom(_, _, _, _)
BigTimesFrom(a, s, i, carry) ==
    IF i > Len(a) THEN BigOfInt(carry)
    ELSE <<(a[i] * s + carry) % 32768>>
         \o BigTimesFrom(a, s, i + 1, (a[i] * s + carry) \div 32768)

\* a * s for s below 2^15.
BigTimes(a, s) == BigNorm(BigTimesFrom(a, s, 1, 0))

\* a * s + high * 2^15.
BigTimesPlus(high, a, s) ==
    IF high = <<>> THEN BigTimes(a, s) ELSE BigAdd(BigTimes(a, s), <<0>> \o high)

RECURSIVE BigMul(_, _)
BigMul(a, b) ==
    IF a = <<>> \/ b = <<>> THEN <<>>
    ELSE BigTimesPlus(BigMul(a, Tail(b)), a, b[1])

\* a * 2^k.
BigShl(a, k) ==
    IF a = <<>> THEN <<>> ELSE [i \in 1..(k \div 15) |-> 0] \o BigTimes(a, pow2(k % 15))

BigDivStep(high, limb, d) ==
    [q |-> <<(high.r * 32768 + limb) \div d>> \o high.q, r |-> (high.r * 32768 + limb) % d]

RECURSIVE BigDivMod(_, _)
\* Quotient and remainder of a by d, d below 2^15.
BigDivMod(a, d) ==
    IF a = <<>> THEN [q |-> <<>>, r |-> 0]
    ELSE BigDivStep(BigDivMod(Tail(a), d), a[1], d)

\* a \div 2^k.
BigShr(a, k) == BigNorm(BigDivMod(SubSeq(a, k \div 15 + 1, Len(a)), pow2(k % 15)).q)

BigBitLength(a) == IF a = <<>> THEN 0 ELSE (Len(a) - 1) * 15 + BitLength(a[Len(a)])

\* Bit i of a, bit 0 the lowest.
BigBit(a, i) == (Limb(a, i \div 15 + 1) \div pow2(i % 15)) % 2

\* Whether the k lowest bits of a are all 0.
BigLowZero(a, k) ==
    /\ \A j \in 1..(k \div 15) : Limb(a, j) = 0
    /\ Limb(a, k \div 15 + 1) % pow2(k % 15) = 0

\* Whether a \div 2^s is rounded up when a / 2^s is rounded to the nearest
\* integer, a tie to the even one.
RoundsUp(a, s) == BigBit(a, s - 1) = 1 /\ (~BigLowZero(a, s - 1) \/ BigBit(a, s) = 1)

RECURSIVE FlRound(_, _)
\* The double nearest M * 2^E.
FlRound(M, E) ==
    IF M = <<>> THEN [m |-> <<>>, e |-> 0]
    ELSE IF BigBitLength(M) <= 53
    THEN [m |-> BigShl(M, 53 - BigBitLength(M)), e |-> E - (53 - BigBitLength(M))]
    ELSE FlRound(IF RoundsUp(M, BigBitLength(M) - 53)
                 THEN BigAdd(BigShr(M, BigBitLength(M) - 53), <<1>>)
                 ELSE BigShr(M, BigBitLength(M) - 53),
                 E + BigBitLength(M) - 53)

FlOfInt(n) == FlRound(BigOfInt(n), 0)

FlMul(x, y) ==
    IF x.m = <<>> \/ y.m = <<>> THEN [m |-> <<>>, e |-> 0]
    ELSE FlRound(BigMul(x.m, y.m), x.e + y.e)

FlAdd(x, y) ==
    IF x.m = <<>> THEN y
    ELSE IF y.m = <<>> THEN x
    ELSE IF x.e >= y.e THEN FlRound(BigAdd(BigShl(x.m, x.e - y.e), y.m), y.e)
    ELSE FlRound(BigAdd(x.m, BigShl(y.m, y.e - x.e)), x.e)

\* x - y for x >= y.
FlSub(x, y) ==
    IF y.m = <<>> THEN x
    ELSE IF x.e >= y.e THEN FlRound(BigSub(BigShl(x.m, x.e - y.e), y.m), y.e)
    ELSE FlRound(BigSub(x.m, BigShl(y.m, y.e - x.e)), x.e)

FlLess(x, y) ==
    IF y.m = <<>> THEN FALSE
    ELSE IF x.m = <<>> THEN TRUE
    ELSE IF x.e >= y.e THEN BigLess(BigShl(x.m, x.e - y.e), y.m)
    ELSE BigLess(x.m, BigShl(y.m, y.e - x.e))

FlZero == FlOfInt(0)

\* x - y for doubles x, y >= 0, a double of either sign: whether it is
\* negative, and its magnitude.  x - y and y - x round to the same magnitude,
\* and x - x is +0.0.
FlDifference(x, y) ==
    IF FlLess(x, y) THEN [negative |-> TRUE, magnitude |-> FlSub(y, x)]
    ELSE [negative |-> FALSE, magnitude |-> FlSub(x, y)]

\* Long division by a natural d whose highest limb is 2^14 or more, one limb
\* of the quotient at a time: the limb is estimated from the two highest
\* limbs of the remainder, which overshoots by 2 at most.
DigitFrom(r, d, estimate) ==
    IF ~BigLess(r, BigTimes(d, estimate)) THEN estimate
    ELSE IF ~BigLess(r, BigTimes(d, estimate - 1)) THEN estimate - 1
    ELSE estimate - 2

Digit(r, d) ==
    DigitFrom(r, d, IF (Limb(r, Len(d) + 1) * 32768 + Limb(r, Len(d))) \div d[Len(d)] > 32767
                    THEN 32767
                    ELSE (Limb(r, Len(d) + 1) * 32768 + Limb(r, Len(d))) \div d[Len(d)])

LongDivDigit(r, d, digit, q) == [q |-> <<digit>> \o q, r |-> BigSub(r, BigTimes(d, digit))]

LongDivStep(high, limb, d) ==
    IF high.r = <<>> /\ limb = 0
    THEN [q |-> <<0>> \o high.q, r |-> <<>>]
    ELSE LongDivDigit(<<limb>> \o high.r, d, Digit(<<limb>> \o high.r, d), high.q)

RECURSIVE LongDiv(_, _)
\* Quotient and remainder of a by d: a shorter than d is the remainder.
LongDiv(a, d) ==
    IF Len(a) < Len(d) THEN [q |-> <<>>, r |-> a]
    ELSE LongDivStep(LongDiv(Tail(a), d), a[1], d)

\* The quotient's bits with one more that says whether anything is left.
WithSticky(division) ==
    BigAdd(BigAdd(BigNorm(division.q), BigNorm(division.q)),
           IF division.r = <<>> THEN <<>> ELSE <<1>>)

\* x / y, y not 0.  The 53 bits of y.m shifted by 7 fill 4 limbs; the
\* quotient has 60 bits or 61.
FlDiv(x, y) ==
    IF x.m = <<>> \/ y.m = <<>> THEN x
    ELSE FlRound(WithSticky(LongDiv(BigShl(x.m, 67), BigShl(y.m, 7))), x.e - y.e - 61)

\* The double nearest n / d: what a literal, float(str) or round() gives.
FlOfRatio(n, d) == FlDiv(FlOfInt(n), FlOfInt(d))

\* math.floor(x), int(x).
FlFloor(x) == IF x.e >= 0 THEN BigToInt(BigShl(x.m, x.e)) ELSE BigToInt(BigShr(x.m, -x.e))

\* Whether x is a whole number.
FlIsWhole(x) == x.e >= 0 \/ BigLowZero(x.m, -x.e)

RoundShift(a, s) == BigToInt(BigShr(a, s)) + (IF RoundsUp(a, s) THEN 1 ELSE 0)

\* round(x, digits) and f"{x:.{digits}f}" for scale = 10^digits: x * scale
\* rounded to the nearest integer, on the exact value of x, a tie to even.
FlRoundDecimal(x, scale) ==
    IF x.e >= 0 THEN BigToInt(BigShl(BigTimes(x.m, scale), x.e))
    ELSE RoundShift(BigTimes(x.m, scale), -x.e)

\* The sign of x - n / d.
FlCompareRatio(x, n, d) ==
    IF x.e >= 0
    THEN (IF BigLess(BigShl(BigMul(x.m, BigOfInt(d)), x.e), BigOfInt(n)) THEN -1
          ELSE IF BigLess(BigOfInt(n), BigShl(BigMul(x.m, BigOfInt(d)), x.e)) THEN 1 ELSE 0)
    ELSE (IF BigLess(BigMul(x.m, BigOfInt(d)), BigShl(BigOfInt(n), -x.e)) THEN -1
          ELSE IF BigLess(BigShl(BigOfInt(n), -x.e), BigMul(x.m, BigOfInt(d))) THEN 1 ELSE 0)

(***************************************************************************)
(* midi.py: calculate_time_from_ticks                                      *)
(***************************************************************************)
\* The tempi (microseconds per beat) the model draws from: 150, 120, 100 BPM.
TempoValues == {400000, 500000, 600000}
TicksPerBeatValues == {2, 480}

\* A time in seconds in whole numbers: num / den / per of a second.
\* mido.tick2second(tick, ticks_per_beat, tempo) = tick * tempo * 1e-6 /
\* ticks_per_beat seconds.
tick2second(tick, ticks_per_beat, tempo) ==
    [num |-> tick * tempo, den |-> ticks_per_beat, per |-> 1000000]

\* 0.0 seconds, over the denominator of the spans of a file.
zero_seconds(ticks_per_beat) == [num |-> 0, den |-> ticks_per_beat, per |-> 1000000]

\* current_time_seconds += a span: both over the same denominator.
seconds_plus(current_time_seconds, span) ==
    [num |-> current_time_seconds.num + span.num,
     den |-> current_time_seconds.den, per |-> current_time_seconds.per]

\* seconds * 1000, the milliseconds of the callers (lines 106 and 143), as
\* the whole-number path holds them: in microseconds, the numerator over
\* ticks_per_beat (seconds.den).
seconds_times_1000(seconds) == seconds.num * (1000000 \div seconds.per)

\* The rest of a span, added when the scan stops (lines 33-35 and 48-50).
remaining_time(target_ticks, ticks_per_beat, current_time_seconds, current_tempo, last_tick_position) ==
    LET remaining_ticks == target_ticks - last_tick_position IN
    IF remaining_ticks > 0
    THEN seconds_plus(current_time_seconds,
                      tick2second(remaining_ticks, ticks_per_beat, current_tempo))
    ELSE current_time_seconds

RECURSIVE ticks_loop_late_tempo(_, _, _, _, _, _, _)
\* The loop with the tempo of an event applied to the span that ends at it.
ticks_loop_late_tempo(target_ticks, ticks_per_beat, tempo_events, n, current_time_seconds, current_tempo, last_tick_position) ==
    IF n > Len(tempo_events)
    THEN remaining_time(target_ticks, ticks_per_beat, current_time_seconds, current_tempo, last_tick_position)
    ELSE LET tempo_change_tick == tempo_events[n].time_ticks IN
         IF tempo_change_tick >= target_ticks
         THEN remaining_time(target_ticks, ticks_per_beat, current_time_seconds, tempo_events[n].tempo, last_tick_position)
         ELSE ticks_loop_late_tempo(target_ticks, ticks_per_beat, tempo_events, n + 1,
                  IF tempo_change_tick > last_tick_position
                  THEN seconds_plus(current_time_seconds,
                                    tick2second(tempo_change_tick - last_tick_position,
                                                ticks_per_beat, tempo_events[n].tempo))
                  ELSE current_time_seconds,
                  tempo_events[n].tempo, tempo_change_tick)

RECURSIVE ticks_loop(_, _, _, _, _, _, _)
\* The for loop over tempo_events from its n-th event on, with its else.
ticks_loop(target_ticks, ticks_per_beat, tempo_events, n, current_time_seconds, current_tempo, last_tick_position) ==
    IF n > Len(tempo_events)
    THEN remaining_time(target_ticks, ticks_per_beat, current_time_seconds, current_tempo, last_tick_position)
    ELSE LET tempo_change_tick == tempo_events[n].time_ticks IN
         IF tempo_change_tick >= target_ticks
         THEN remaining_time(target_ticks, ticks_per_beat, current_time_seconds, current_tempo, last_tick_position)
         ELSE ticks_loop(target_ticks, ticks_per_beat, tempo_events, n + 1,
                  IF tempo_change_tick > last_tick_position
                  THEN seconds_plus(current_time_seconds,
                                    tick2second(tempo_change_tick - last_tick_position,
                                                ticks_per_beat, current_tempo))
                  ELSE current_time_seconds,
                  tempo_events[n].tempo, tempo_change_tick)

calculate_time_from_ticks(target_ticks, ticks_per_beat, tempo_events, initial_tempo) ==
    IF target_ticks = 0
    THEN zero_seconds(ticks_per_beat)
    ELSE ticks_loop(target_ticks, ticks_per_beat, tempo_events, 1,
                    zero_seconds(ticks_per_beat), initial_tempo, 0)

\* Tempo events as extract_tempo_changes hands them over: sorted by time_ticks.
IsSortedByTicks(events) ==
    \A a, b \in 1..Len(events) : a < b => events[a].time_ticks <= events[b].time_ticks

TempoEventLists(max_tick, max_events) ==
    {ev \in SeqUpTo([time_ticks : 0..max_tick, tempo : TempoValues], max_events) :
        IsSortedByTicks(ev)}

\* The converter is not in use.
TicksIdle ==
    /\ tc_args = [target_ticks |-> 0, ticks_per_beat |-> 480, tempo_events |-> <<>>,
                  initial_tempo |-> 500000]
    /\ tc_result = None

TicksCall ==
    /\ tc_args \in [target_ticks : 0..MaxTick, ticks_per_beat : TicksPerBeatValues,
                    tempo_events : TempoEventLists(MaxTick, MaxTempoEvents), initial_tempo : TempoValues]
    /\ tc_result = None

CallCalculateTime ==
    /\ tc_result = None
    /\ tc_result' = Some(calculate_time_from_ticks(tc_args.target_ticks, tc_args.ticks_per_beat,
                                                   tc_args.tempo_events, tc_args.initial_tempo))
    /\ UNCHANGED <<tc_args, tc_others>>

(***************************************************************************)
(* C3                                                                      *)
(***************************************************************************)
\* The tempo in effect during tick t: that of the last event, in list order,
\* whose tick is at or before t; initial_tempo before the first event.
TempoInEffect(tempo_events, initial_tempo, t) ==
    LET at == {n \in 1..Len(tempo_events) : tempo_events[n].time_ticks <= t} IN
    IF at = {} THEN initial_tempo ELSE tempo_events[MaxOf(at)].tempo

RECURSIVE ElapsedOver(_, _, _)
\* Sum over the ticks of [0, t) of the tempo in effect: the spans' sum of
\* delta_ticks * T.
ElapsedOver(tempo_events, initial_tempo, t) ==
    IF t = 0 THEN 0
    ELSE ElapsedOver(tempo_events, initial_tempo, t - 1)
         + TempoInEffect(tempo_events, initial_tempo, t - 1)

\* Two fractions of the same value.
SameValue(x, y) ==
    BigMul(BigMul(BigOfInt(x.num), BigOfInt(y.den)), BigOfInt(y.per))
        = BigMul(BigMul(BigOfInt(y.num), BigOfInt(x.den)), BigOfInt(x.per))

\* The sum over the inter-event spans of [0, target_ticks) of delta_ticks * T,
\* T the initial tempo before the first event and the last processed event's
\* tempo afterwards.
SpansSum == ElapsedOver(tc_args.tempo_events, tc_args.initial_tempo, tc_args.target_ticks)

\* C3 as stated: calculate_time_from_ticks returns 0 for target_ticks = 0 and
\* otherwise the sum over the spans of delta_ticks * T / ticks_per_beat / 1000,
\* the elapsed milliseconds; with no events target_ticks * initial_tempo /
\* ticks_per_beat / 1000.
C3_ReturnsMilliseconds ==
    tc_result # None =>
        /\ tc_args.target_ticks = 0 => tc_result[1].num = 0
        /\ SameValue(tc_result[1], [num |-> SpansSum, den |-> tc_args.ticks_per_beat, per |-> 1000])
        /\ tc_args.tempo_events = <<>> =>
               SameValue(tc_result[1], [num |-> tc_args.target_ticks * tc_args.initial_tempo,
                                        den |-> tc_args.ticks_per_beat, per |-> 1000])

\* C3: calculate_time_from_ticks returns 0 for target_ticks = 0 and otherwise
\* the sum over the inter-event spans of [0, target_ticks) of delta_ticks * T /
\* ticks_per_beat / 1000000, the elapsed seconds, T the initial tempo before
\* the first event and the last processed event's tempo afterwards; with no
\* events it is target_ticks * initial_tempo / ticks_per_beat / 1000000.  The
\* callers' product by 1000 is the sum of delta_ticks * T / ticks_per_beat /
\* 1000 milliseconds.
C3_TicksToTime ==
    tc_result # None =>
        /\ tc_args.target_ticks = 0 => tc_result[1].num = 0
        /\ SameValue(tc_result[1], [num |-> SpansSum, den |-> tc_args.ticks_per_beat, per |-> 1000000])
        /\ tc_args.tempo_events = <<>> =>
               SameValue(tc_result[1], [num |-> tc_args.target_ticks * tc_args.initial_tempo,
                                        den |-> tc_args.ticks_per_beat, per |-> 1000000])
        /\ seconds_times_1000(tc_result[1]) = SpansSum

\* A call that crosses a tie of two tempo events at one tick and ends inside
\* the span after them.
C3_Witness ==
    /\ tc_result # None
    /\ Len(tc_args.tempo_events) >= 2
    /\ tc_args.tempo_events[1].time_ticks = tc_args.tempo_events[2].time_ticks
    /\ tc_args.tempo_events[1].tempo # tc_args.tempo_events[2].tempo
    /\ tc_args.tempo_events[1].time_ticks > 0
    /\ tc_args.target_ticks > tc_args.tempo_events[2].time_ticks
    /\ tc_args.initial_tempo # tc_args.tempo_events[2].tempo
    /\ tc_result[1].num > 0

(***************************************************************************)
(* audio.py: create_tempo_segments                                         *)
(***************************************************************************)
\* sorted(d.keys()) of a dict whose keys are numbers.
RECURSIVE sorted(_)
sorted(S) ==
    IF S = {} THEN <<>>
    ELSE LET m == MinOf(S) IN <<m>> \o sorted(S \ {m})

\* The end of the n-th segment (lines 54-58) taken from the audio's length
\* for every key.
segment_end_audio_only(keys, n, audio_duration_ms) == audio_duration_ms

\* The end of the n-th segment (lines 54-58): the next key, or the audio's
\* length for the last key.
segment_end(keys, n, audio_duration_ms) ==
    IF n < Len(keys) THEN keys[n + 1] ELSE audio_duration_ms

\* A key of the ChangeMap and the audio's length, floats of milliseconds in
\* the code, are held in microseconds: ms stands for the double nearest
\* ms / 1000, which is ms / 1000 itself for a whole number of milliseconds.
MillisecondsDouble(ms) ==
    IF ms % 1000 = 0 THEN FlOfInt(ms \div 1000) ELSE FlOfRatio(ms, 1000)

\* The segment of the n-th key (lines 62-90), given the values carried forward.
\* duration = end_time - start_time (line 62) is a subtraction of doubles:
\* duration_ms is the double it gives, of either sign.
\* time_signature is None when neither the key nor an earlier one has one.
segment_of(events, start_time, end_time, last_bpm, last_tempo, last_time_signature) ==
    [start_ms |-> start_time,
     end_ms |-> end_time,
     duration_ms |-> FlDifference(MillisecondsDouble(end_time),
                                  MillisecondsDouble(start_time)),
     bpm |-> IF "tempo" \in DOMAIN events THEN events.tempo.bpm ELSE last_bpm,
     tempo |-> IF "tempo" \in DOMAIN events THEN Some(events.tempo.tempo) ELSE last_tempo,
     time_signature |->
         IF "time_signature" \in DOMAIN events
         THEN Some([numerator |-> events.time_signature.numerator,
                    denominator |-> events.time_signature.denominator])
         ELSE last_time_signature]

RECURSIVE segments_loop(_, _, _, _, _, _, _, _)
\* The loop over the sorted keys from the n-th key on (lines 51-97).  The log
\* line 96 reads segment['time_signature']['numerator'] while it formats its
\* message: that raises TypeError when the segment's time signature is None.
segments_loop(tempo_and_time_changes, keys, n, audio_duration_ms, last_bpm, last_tempo, last_time_signature, segments) ==
    IF n > Len(keys)
    THEN [raised |-> FALSE, segments |-> segments]
    ELSE LET segment == segment_of(tempo_and_time_changes[keys[n]], keys[n],
                                   segment_end(keys, n, audio_duration_ms),
                                   last_bpm, last_tempo, last_time_signature)
         IN  IF segment.time_signature = None
             THEN [raised |-> TRUE, segments |-> <<>>]
             ELSE segments_loop(tempo_and_time_changes, keys, n + 1, audio_duration_ms,
                                segment.bpm, segment.tempo, segment.time_signature,
                                Append(segments,
                                       [segment EXCEPT !.time_signature = segment.time_signature[1]]))

\* The call's outcome: the list it returns, or raised.
create_tempo_segments(tempo_and_time_changes, audio_duration_ms, initial_bpm) ==
    segments_loop(tempo_and_time_changes, sorted(DOMAIN tempo_and_time_changes), 1,
                  audio_duration_ms, initial_bpm, None, None, <<>>)

\* The values a ChangeMap's records are drawn from: BPM in hundredths with
\* its tempo, and time signatures.
TempoRecords == {[bpm |-> 12000, tempo |-> 500000], [bpm |-> 15000, tempo |-> 400000]}
TimeSignatures == {[numerator |-> 4, denominator |-> 4], [numerator |-> 3, denominator |-> 8]}
ChangeRecords ==
    {[tempo |-> t] : t \in TempoRecords}
    \cup {[time_signature |-> ts] : ts \in TimeSignatures}
    \cup {[tempo |-> t, time_signature |-> ts] : t \in TempoRecords, ts \in TimeSignatures}
\* Keys (microseconds) and audio lengths (microseconds): an audio that ends
\* before the last key, at a key, and after every key.  250.0 - 200.001 is
\* not the double nearest 49.999.
ChangeKeys == {0, 200001, 250000}
AudioDurations == {100000, 250000, 6000000}
ChangeMaps == UNION {[K -> ChangeRecords] : K \in (SUBSET ChangeKeys) \ {{}}}

SegmenterIdle ==
    /\ sg_args = [tempo_and_time_changes |-> [k \in {} |-> 0], audio_duration_ms |-> 0,
                  initial_bpm |-> 12000]
    /\ sg_result = None

SegmenterCall ==
    /\ sg_args \in [tempo_and_time_changes : ChangeMaps, audio_duration_ms : AudioDurations,
                    initial_bpm : {12000, 17000}]
    /\ sg_result = None

CallCreateTempoSegments ==
    /\ sg_result = None
    /\ sg_result' = Some(create_tempo_segments(sg_args.tempo_and_time_changes,
                                               sg_args.audio_duration_ms, sg_args.initial_bpm))
    /\ UNCHANGED <<sg_args, sg_others>>

(***************************************************************************)
(* C1                                                                      *)
(***************************************************************************)
\* The keys are k0 = 0 < k1 < ... < kn and key 0 carries a time signature, as
\* the ChangeMap's invariant has it.
C1_Pre ==
    /\ sg_result # None
    /\ 0 \in DOMAIN sg_args.tempo_and_time_changes
    /\ "time_signature" \in DOMAIN sg_args.tempo_and_time_changes[0]

\* A duration (a double of either sign) is >= 0, and > 0.
NotNegative(duration) == ~duration.negative
Positive(duration) == ~duration.negative /\ duration.magnitude # FlZero

\* What C1 says of the segments whatever the audio's length: one segment per
\* key, in ascending start order from 0, each ending where the next starts,
\* the last ending at audio_duration_ms, duration_ms == end_ms - start_ms
\* (the doubles' difference).
C1_Chain ==
    LET keys == sorted(DOMAIN sg_args.tempo_and_time_changes)
        segs == sg_result[1].segments
    IN  /\ ~sg_result[1].raised
        /\ Len(segs) = Len(keys)
        /\ segs[1].start_ms = 0
        /\ \A n \in 1..Len(segs) :
              /\ segs[n].start_ms = keys[n]
              /\ segs[n].duration_ms
                    = FlDifference(MillisecondsDouble(segs[n].end_ms),
                                   MillisecondsDouble(segs[n].start_ms))
              /\ n < Len(segs) => /\ segs[n].end_ms = segs[n + 1].start_ms
                                  /\ segs[n].start_ms < segs[n + 1].start_ms
        /\ segs[Len(segs)].end_ms = sg_args.audio_duration_ms

\* C1 as stated: for every audio_duration_ms the segments partition
\* [0, audio_duration_ms): the chain above and duration_ms >= 0 for every
\* segment.
C1_Original ==
    C1_Pre =>
        /\ C1_Chain
        /\ \A n \in 1..Len(sg_result[1].segments) :
              NotNegative(sg_result[1].segments[n].duration_ms)

\* C1 (amended): the chain holds for every audio_duration_ms; every segment
\* but the last has duration_ms > 0, and the last has duration_ms >= 0 (the
\* segments partition [0, audio_duration_ms)) exactly when audio_duration_ms
\* is at or after the last key.
C1_Segments ==
    C1_Pre =>
        LET segs == sg_result[1].segments
            last_key == MaxOf(DOMAIN sg_args.tempo_and_time_changes)
        IN  /\ C1_Chain
            /\ \A n \in 1..(Len(segs) - 1) : Positive(segs[n].duration_ms)
            /\ NotNegative(segs[Len(segs)].duration_ms)
                  <=> (sg_args.audio_duration_ms >= last_key)

\* Three keys and an audio that ends after the last one: three segments, one
\* of them with a duration that is not the exact difference of its ends.
C1_Witness ==
    /\ C1_Pre
    /\ DOMAIN sg_args.tempo_and_time_changes = ChangeKeys
    /\ sg_args.audio_duration_ms > MaxOf(ChangeKeys)
    /\ Len(sg_result[1].segments) = 3
    /\ Positive(sg_result[1].segments[3].duration_ms)
    /\ sg_result[1].segments[2].duration_ms.magnitude # MillisecondsDouble(49999)

(***************************************************************************)
(* Text.  A Python str is a sequence of characters; a character of ASCII   *)
(* is the string of it, a character beyond ASCII is written by its code    *)
(* point, as "U+0662".                                                     *)
(***************************************************************************)
\* The digits str() and the formats write.
DigitChars == <<"0", "1", "2", "3", "4", "5", "6", "7", "8", "9">>

\* The characters \d of a str pattern matches and int() and float() read:
\* the decimal digits of Unicode (category Nd, Unicode 14.0 of Python 3.11),
\* a row for the digits 0 to 9 of each script.
DecimalDigits == <<
    <<"0", "1", "2", "3", "4", "5", "6", "7", "8", "9">>,
    <<"U+0660", "U+0661", "U+0662", "U+0663", "U+0664", "U+0665", "U+0666", "U+0667", "U+0668", "U+0669">>,
    <<"U+06F0", "U+06F1", "U+06F2", "U+06F3", "U+06F4", "U+06F5", "U+06F6", "U+06F7", "U+06F8", "U+06F9">>,
    <<"U+07C0", "U+07C1", "U+07C2", "U+07C3", "U+07C4", "U+07C5", "U+07C6", "U+07C7", "U+07C8", "U+07C9">>,
    <<"U+0966", "U+0967", "U+0968", "U+0969", "U+096A", "U+096B", "U+096C", "U+096D", "U+096E", "U+096F">>,
    <<"U+09E6", "U+09E7", "U+09E8", "U+09E9", "U+09EA", "U+09EB", "U+09EC", "U+09ED", "U+09EE", "U+09EF">>,
    <<"U+0A66", "U+0A67", "U+0A68", "U+0A69", "U+0A6A", "U+0A6B", "U+0A6C", "U+0A6D", "U+0A6E", "U+0A6F">>,
    <<"U+0AE6", "U+0AE7", "U+0AE8", "U+0AE9", "U+0AEA", "U+0AEB", "U+0AEC", "U+0AED", "U+0AEE", "U+0AEF">>,
    <<"U+0B66", "U+0B67", "U+0B68", "U+0B69", "U+0B6A", "U+0B6B", "U+0B6C", "U+0B6D", "U+0B6E", "U+0B6F">>,
    <<"U+0BE6", "U+0BE7", "U+0BE8", "U+0BE9", "U+0BEA", "U+0BEB", "U+0BEC", "U+0BED", "U+0BEE", "U+0BEF">>,
    <<"U+0C66", "U+0C67", "U+0C68", "U+0C69", "U+0C6A", "U+0C6B", "U+0C6C", "U+0C6D", "U+0C6E", "U+0C6F">>,
    <<"U+0CE6", "U+0CE7", "U+0CE8", "U+0CE9", "U+0CEA", "U+0CEB", "U+0CEC", "U+0CED", "U+0CEE", "U+0CEF">>,
    <<"U+0D66", "U+0D67", "U+0D68", "U+0D69", "U+0D6A", "U+0D6B", "U+0D6C", "U+0D6D", "U+0D6E", "U+0D6F">>,
    <<"U+0DE6", "U+0DE7", "U+0DE8", "U+0DE9", "U+0DEA", "U+0DEB", "U+0DEC", "U+0DED", "U+0DEE", "U+0DEF">>,
    <<"U+0E50", "U+0E51", "U+0E52", "U+0E53", "U+0E54", "U+0E55", "U+0E56", "U+0E57", "U+0E58", "U+0E59">>,
    <<"U+0ED0", "U+0ED1", "U+0ED2", "U+0ED3", "U+0ED4", "U+0ED5", "U+0ED6", "U+0ED7", "U+0ED8", "U+0ED9">>,
    <<"U+0F20", "U+0F21", "U+0F22", "U+0F23", "U+0F24", "U+0F25", "U+0F26", "U+0F27", "U+0F28", "U+0F29">>,
    <<"U+1040", "U+1041", "U+1042", "U+1043", "U+1044", "U+1045", "U+1046", "U+1047", "U+1048", "U+1049">>,
    <<"U+1090", "U+1091", "U+1092", "U+1093", "U+1094", "U+1095", "U+1096", "U+1097", "U+1098", "U+1099">>,
    <<"U+17E0", "U+17E1", "U+17E2", "U+17E3", "U+17E4", "U+17E5", "U+17E6", "U+17E7", "U+17E8", "U+17E9">>,
    <<"U+1810", "U+1811", "U+1812", "U+1813", "U+1814", "U+1815", "U+1816", "U+1817", "U+1818", "U+1819">>,
    <<"U+1946", "U+1947", "U+1948", "U+1949", "U+194A", "U+194B", "U+194C", "U+194D", "U+194E", "U+194F">>,
    <<"U+19D0", "U+19D1", "U+19D2", "U+19D3", "U+19D4", "U+19D5", "U+19D6", "U+19D7", "U+19D8", "U+19D9">>,
    <<"U+1A80", "U+1A81", "U+1A82", "U+1A83", "U+1A84", "U+1A85", "U+1A86", "U+1A87", "U+1A88", "U+1A89">>,
    <<"U+1A90", "U+1A91", "U+1A92", "U+1A93", "U+1A94", "U+1A95", "U+1A96", "U+1A97", "U+1A98", "U+1A99">>,
    <<"U+1B50", "U+1B51", "U+1B52", "U+1B53", "U+1B54", "U+1B55", "U+1B56", "U+1B57", "U+1B58", "U+1B59">>,
    <<"U+1BB0", "U+1BB1", "U+1BB2", "U+1BB3", "U+1BB4", "U+1BB5", "U+1BB6", "U+1BB7", "U+1BB8", "U+1BB9">>,
    <<"U+1C40", "U+1C41", "U+1C42", "U+1C43", "U+1C44", "U+1C45", "U+1C46", "U+1C47", "U+1C48", "U+1C49">>,
    <<"U+1C50", "U+1C51", "U+1C52", "U+1C53", "U+1C54", "U+1C55", "U+1C56", "U+1C57", "U+1C58", "U+1C59">>,
    <<"U+A620", "U+A621", "U+A622", "U+A623", "U+A624", "U+A625", "U+A626", "U+A627", "U+A628", "U+A629">>,
    <<"U+A8D0", "U+A8D1", "U+A8D2", "U+A8D3", "U+A8D4", "U+A8D5", "U+A8D6", "U+A8D7", "U+A8D8", "U+A8D9">>,
    <<"U+A900", "U+A901", "U+A902", "U+A903", "U+A904", "U+A905", "U+A906", "U+A907", "U+A908", "U+A909">>,
    <<"U+A9D0", "U+A9D1", "U+A9D2", "U+A9D3", "U+A9D4", "U+A9D5", "U+A9D6", "U+A9D7", "U+A9D8", "U+A9D9">>,
    <<"U+A9F0", "U+A9F1", "U+A9F2", "U+A9F3", "U+A9F4", "U+A9F5", "U+A9F6", "U+A9F7", "U+A9F8", "U+A9F9">>,
    <<"U+AA50", "U+AA51", "U+AA52", "U+AA53", "U+AA54", "U+AA55", "U+AA56", "U+AA57", "U+AA58", "U+AA59">>,
    <<"U+ABF0", "U+ABF1", "U+ABF2", "U+ABF3", "U+ABF4", "U+ABF5", "U+ABF6", "U+ABF7", "U+ABF8", "U+ABF9">>,
    <<"U+FF10", "U+FF11", "U+FF12", "U+FF13", "U+FF14", "U+FF15", "U+FF16", "U+FF17", "U+FF18", "U+FF19">>,
    <<"U+104A0", "U+104A1", "U+104A2", "U+104A3", "U+104A4", "U+104A5", "U+104A6", "U+104A7", "U+104A8", "U+104A9">>,
    <<"U+10D30", "U+10D31", "U+10D32", "U+10D33", "U+10D34", "U+10D35", "U+10D36", "U+10D37", "U+10D38", "U+10D39">>,
    <<"U+11066", "U+11067", "U+11068", "U+11069", "U+1106A", "U+1106B", "U+1106C", "U+1106D", "U+1106E", "U+1106F">>,
    <<"U+110F0", "U+110F1", "U+110F2", "U+110F3", "U+110F4", "U+110F5", "U+110F6", "U+110F7", "U+110F8", "U+110F9">>,
    <<"U+11136", "U+11137", "U+11138", "U+11139", "U+1113A", "U+1113B", "U+1113C", "U+1113D", "U+1113E", "U+1113F">>,
    <<"U+111D0", "U+111D1", "U+111D2", "U+111D3", "U+111D4", "U+111D5", "U+111D6", "U+111D7", "U+111D8", "U+111D9">>,
    <<"U+112F0", "U+112F1", "U+112F2", "U+112F3", "U+112F4", "U+112F5", "U+112F6", "U+112F7", "U+112F8", "U+112F9">>,
    <<"U+11450", "U+11451", "U+11452", "U+11453", "U+11454", "U+11455", "U+11456", "U+11457", "U+11458", "U+11459">>,
    <<"U+114D0", "U+114D1", "U+114D2", "U+114D3", "U+114D4", "U+114D5", "U+114D6", "U+114D7", "U+114D8", "U+114D9">>,
    <<"U+11650", "U+11651", "U+11652", "U+11653", "U+11654", "U+11655", "U+11656", "U+11657", "U+11658", "U+11659">>,
    <<"U+116C0", "U+116C1", "U+116C2", "U+116C3", "U+116C4", "U+116C5", "U+116C6", "U+116C7", "U+116C8", "U+116C9">>,
    <<"U+11730", "U+11731", "U+11732", "U+11733", "U+11734", "U+11735", "U+11736", "U+11737", "U+11738", "U+11739">>,
    <<"U+118E0", "U+118E1", "U+118E2", "U+118E3", "U+118E4", "U+118E5", "U+118E6", "U+118E7", "U+118E8", "U+118E9">>,
    <<"U+11950", "U+11951", "U+11952", "U+11953", "U+11954", "U+11955", "U+11956", "U+11957", "U+11958", "U+11959">>,
    <<"U+11C50", "U+11C51", "U+11C52", "U+11C53", "U+11C54", "U+11C55", "U+11C56", "U+11C57", "U+11C58", "U+11C59">>,
    <<"U+11D50", "U+11D51", "U+11D52", "U+11D53", "U+11D54", "U+11D55", "U+11D56", "U+11D57", "U+11D58", "U+11D59">>,
    <<"U+11DA0", "U+11DA1", "U+11DA2", "U+11DA3", "U+11DA4", "U+11DA5", "U+11DA6", "U+11DA7", "U+11DA8", "U+11DA9">>,
    <<"U+16A60", "U+16A61", "U+16A62", "U+16A63", "U+16A64", "U+16A65", "U+16A66", "U+16A67", "U+16A68", "U+16A69">>,
    <<"U+16AC0", "U+16AC1", "U+16AC2", "U+16AC3", "U+16AC4", "U+16AC5", "U+16AC6", "U+16AC7", "U+16AC8", "U+16AC9">>,
    <<"U+16B50", "U+16B51", "U+16B52", "U+16B53", "U+16B54", "U+16B55", "U+16B56", "U+16B57", "U+16B58", "U+16B59">>,
    <<"U+1D7CE", "U+1D7CF", "U+1D7D0", "U+1D7D1", "U+1D7D2", "U+1D7D3", "U+1D7D4", "U+1D7D5", "U+1D7D6", "U+1D7D7">>,
    <<"U+1D7D8", "U+1D7D9", "U+1D7DA", "U+1D7DB", "U+1D7DC", "U+1D7DD", "U+1D7DE", "U+1D7DF", "U+1D7E0", "U+1D7E1">>,
    <<"U+1D7E2", "U+1D7E3", "U+1D7E4", "U+1D7E5", "U+1D7E6", "U+1D7E7", "U+1D7E8", "U+1D7E9", "U+1D7EA", "U+1D7EB">>,
    <<"U+1D7EC", "U+1D7ED", "U+1D7EE", "U+1D7EF", "U+1D7F0", "U+1D7F1", "U+1D7F2", "U+1D7F3", "U+1D7F4", "U+1D7F5">>,
    <<"U+1D7F6", "U+1D7F7", "U+1D7F8", "U+1D7F9", "U+1D7FA", "U+1D7FB", "U+1D7FC", "U+1D7FD", "U+1D7FE", "U+1D7FF">>,
    <<"U+1E140", "U+1E141", "U+1E142", "U+1E143", "U+1E144", "U+1E145", "U+1E146", "U+1E147", "U+1E148", "U+1E149">>,
    <<"U+1E2F0", "U+1E2F1", "U+1E2F2", "U+1E2F3", "U+1E2F4", "U+1E2F5", "U+1E2F6", "U+1E2F7", "U+1E2F8", "U+1E2F9">>,
    <<"U+1E950", "U+1E951", "U+1E952", "U+1E953", "U+1E954", "U+1E955", "U+1E956", "U+1E957", "U+1E958", "U+1E959">>,
    <<"U+1FBF0", "U+1FBF1", "U+1FBF2", "U+1FBF3", "U+1FBF4", "U+1FBF5", "U+1FBF6", "U+1FBF7", "U+1FBF8", "U+1FBF9">>>>

\* Character -> its value as a decimal digit.
DecimalValues ==
    [c \in {DecimalDigits[r][n] : r \in 1..Len(DecimalDigits), n \in 1..10} |->
        (CHOOSE n \in 1..10 : \E r \in 1..Len(DecimalDigits) : DecimalDigits[r][n] = c) - 1]

\* \d matches c.
IsDigit(c) == c \in DOMAIN DecimalValues
DigitValue(c) == DecimalValues[c]

RECURSIVE StrOfNat(_)
\* str(n) for an int n >= 0.
StrOfNat(n) ==
    IF n < 10 THEN <<DigitChars[n + 1]>>
    ELSE StrOfNat(n \div 10) \o <<DigitChars[(n % 10) + 1]>>

RECURSIVE zfill(_, _)
\* str.zfill(width)
zfill(str, width) == IF Len(str) >= width THEN str ELSE zfill(<<"0">> \o str, width)

RECURSIVE rstrip(_, _)
\* str.rstrip(c) for a single character c
rstrip(str, c) ==
    IF str # <<>> /\ str[Len(str)] = c THEN rstrip(SubSeq(str, 1, Len(str) - 1), c) ELSE str

RECURSIVE IntOfStr(_)
\* int(str) for a str of decimal digits, of any scripts
IntOfStr(str) ==
    IF str = <<>> THEN 0
    ELSE 10 * IntOfStr(SubSeq(str, 1, Len(str) - 1)) + DigitValue(str[Len(str)])

RECURSIVE Pow10(_)
Pow10(k) == IF k = 0 THEN 1 ELSE 10 * Pow10(k - 1)

\* f"{x:.{places}f}" for x >= 0 held in units of 10^-places.
FormatFixed(units, places) ==
    StrOfNat(units \div Pow10(places)) \o <<".">> \o zfill(StrOfNat(units % Pow10(places)), places)

\* float(str) for a str matching \d+(?:\.\d+)?, in units of 10^-places; the
\* model reads no number with more than `places` decimals.
FixedOfParts(whole, frac, places) ==
    IntOfStr(whole) * Pow10(places)
    + (IF Len(frac) <= places THEN IntOfStr(frac) * Pow10(places - Len(frac))
       ELSE IntOfStr(SubSeq(frac, 1, places)))

SplitAtDot(str, dots) ==
    IF dots = {} THEN <<str, <<>>>>
    ELSE <<SubSeq(str, 1, MinOf(dots) - 1), SubSeq(str, MinOf(dots) + 1, Len(str))>>

FloatOfSplit(parts, places) == FixedOfParts(parts[1], parts[2], places)

FloatOfStr(str, places) ==
    FloatOfSplit(SplitAtDot(str, {n \in 1..Len(str) : str[n] = "."}), places)

\* The literal parts of a segment filename.
LitBPM == <<"_", "B", "P", "M">>
LitTimeSignature == <<"_", "T", "i", "m", "e", "S", "i", "g", "n", "a", "t", "u", "r", "e">>
LitSDur == <<"s", "_", "d", "u", "r">>
LitSSegment == <<"s", "_", "S", "e", "g", "m", "e", "n", "t">>

(***************************************************************************)
(* util.py: generate_segment_filename                                      *)
(***************************************************************************)
\* float(bpm) for a bpm held in hundredths: the double nearest bpm / 100.
BPMDouble(bpm) == FlOfRatio(bpm, 100)

\* The double for bpm / 100 divided by step / 100 and rounded to a whole
\* number, on the exact value of the double: where bpm is halfway between
\* two multiples of step, the side the double is on decides, and the even
\* one when the double is bpm / 100 itself.
RoundToStep(bpm, step) ==
    LET low == bpm \div step
        twice == 2 * (bpm % step)
        side == FlCompareRatio(BPMDouble(bpm), bpm, 100)
    IN  IF twice < step THEN low
        ELSE IF twice > step THEN low + 1
        ELSE IF side < 0 THEN low
        ELSE IF side > 0 THEN low + 1
        ELSE low + (low % 2)

\* The 6 significant digits "g" keeps of a BPM of `exponent` + 1 digits
\* before the point (exponent >= 4), as a whole number of 6 digits, and the
\* exponent after the rounding.
SixDigits(bpm, exponent) ==
    LET digits == RoundToStep(bpm, Pow10(exponent - 3)) IN
    IF digits = 1000000 THEN [digits |-> 100000, exponent |-> exponent + 1]
    ELSE [digits |-> digits, exponent |-> exponent]

\* The 6 digits written: without an exponent below 1e+06, with one from there.
FormatSixDigits(six) ==
    IF six.exponent < 6
    THEN rstrip(rstrip(FormatFixed(six.digits, 5 - six.exponent), "0"), ".")
    ELSE rstrip(rstrip(FormatFixed(six.digits, 5), "0"), ".")
         \o <<"e", "+">> \o zfill(StrOfNat(six.exponent), 2)

\* f"{bpm:g}" for a BPM held in hundredths (line 63): 6 significant digits,
\* no trailing zeros, no decimal point for a whole number.  Below 10000 BPM
\* these are all the digits of the hundredths.
FormatG(bpm) ==
    IF bpm < 1000000 THEN rstrip(rstrip(FormatFixed(bpm, 2), "0"), ".")
    ELSE FormatSixDigits(SixDigits(bpm, Len(StrOfNat(bpm \div 100)) - 1))

\* start_sec = segment["start_ms"] / 1000.0 (lines 67-69) and the 3 decimals
\* f"{start_sec:.3f}" keeps of it (lines 71-73), in thousandths of a second:
\* the format rounds the double, a tie to the even digit.
SecondsTo3Decimals(ms) ==
    FlRoundDecimal(FlDiv(MillisecondsDouble(ms), FlOfInt(1000)), 1000)

\* f"{ms / 1000.0:.3f}".rstrip("0").rstrip(".") for a time in microseconds
\* (lines 67-73).
FormatSeconds(ms) == rstrip(rstrip(FormatFixed(SecondsTo3Decimals(ms), 3), "0"), ".")

\* f"{duration_ms / 1000.0:.3f}".rstrip("0").rstrip(".") (lines 69, 73) for
\* a duration, a double of either sign: the format keeps the sign, also
\* before 0.000.
FormatDuration(duration_ms) ==
    (IF duration_ms.negative THEN <<"-">> ELSE <<>>)
    \o rstrip(rstrip(FormatFixed(FlRoundDecimal(FlDiv(duration_ms.magnitude, FlOfInt(1000)),
                                                1000), 3), "0"), ".")

\* time_sig_str (lines 75-78)
time_sig_str(segment) ==
    IF "time_signature" \in DOMAIN segment
    THEN LitTimeSignature \o StrOfNat(segment.time_signature.numerator) \o <<"-">>
         \o StrOfNat(segment.time_signature.denominator)
    ELSE <<>>

\* base_path is held as Path(base_path)'s stem and suffix.
generate_segment_filename(base_path, index, total_count, segment) ==
    LET digits == Len(StrOfNat(total_count))
        sequence_num == zfill(StrOfNat(index + 1), digits)
    IN  base_path.stem \o <<"_">> \o sequence_num \o LitBPM \o FormatG(segment.bpm)
        \o time_sig_str(segment)
        \o <<"_">> \o FormatSeconds(segment.start_ms) \o <<"s", "-">>
        \o FormatSeconds(segment.end_ms) \o LitSDur
        \o FormatDuration(segment.duration_ms) \o LitSSegment \o base_path.suffix

(***************************************************************************)
(* merging.py: parse_segment_filename                                      *)
(***************************************************************************)
\* str[p..] starts with lit.
StartsWith(str, p, lit) ==
    /\ p + Len(lit) - 1 <= Len(str)
    /\ \A n \in 1..Len(lit) : str[p + n - 1] = lit[n]

\* \d+ at p: the position after the longest run of digits from p (p itself
\* when there is none).  Every literal that follows a number in the pattern
\* starts with a non-digit, so no shorter run can match.
FirstOrEnd(str, stops) == IF stops = {} THEN Len(str) + 1 ELSE MinOf(stops)

DigitsEnd(str, p) == FirstOrEnd(str, {q \in p..Len(str) : ~IsDigit(str[q])})

\* \d+(?:\.\d+)? at p: the position after it (p when it does not match).
FractionEnd(str, p, q) ==
    IF q > p /\ q <= Len(str) /\ str[q] = "." /\ DigitsEnd(str, q + 1) > q + 1
    THEN DigitsEnd(str, q + 1)
    ELSE q

NumberEnd(str, p) == FractionEnd(str, p, DigitsEnd(str, p))

\* "." matches any character but a line break (no re.DOTALL, line 16).
LineBreak == "\n"

\* .+ at p, greedy: the position before the first line break from p (p itself
\* when a line break is at p or the string ends there).  The pattern stops
\* after it and re.match asks for no end of string, so what follows the line
\* break is not looked at.
LineEnd(str, p) == FirstOrEnd(str, {q \in p..Len(str) : str[q] = LineBreak})

\* The pattern after group 1 as a list of parts: a literal, (\d+),
\* (\d+(?:\.\d+)?) or the final (.+):
\* _(\d+)_BPM(\d+(?:\.\d+)?)(?:_TimeSignature(\d+)-(\d+))?_(\d+(?:\.\d+)?)s-
\* (\d+(?:\.\d+)?)s_dur(\d+(?:\.\d+)?)s_Segment\.(.+)
PatternHead ==
    <<[kind |-> "lit", text |-> <<"_">>], [kind |-> "int"],
      [kind |-> "lit", text |-> LitBPM], [kind |-> "num"]>>
PatternTimeSignature ==
    <<[kind |-> "lit", text |-> LitTimeSignature], [kind |-> "int"],
      [kind |-> "lit", text |-> <<"-">>], [kind |-> "int"]>>
PatternRest ==
    <<[kind |-> "lit", text |-> <<"_">>], [kind |-> "num"],
      [kind |-> "lit", text |-> <<"s", "-">>], [kind |-> "num"],
      [kind |-> "lit", text |-> LitSDur], [kind |-> "num"],
      [kind |-> "lit", text |-> LitSSegment \o <<".">>], [kind |-> "rest"]>>

RECURSIVE MatchParts(_, _, _, _, _)
\* The parts from the k-th on matched at p; a group is the pair of its first
\* position and the position after it.
MatchParts(str, p, parts, k, groups) ==
    IF k > Len(parts) THEN [ok |-> TRUE, groups |-> groups]
    ELSE IF parts[k].kind = "lit"
    THEN IF StartsWith(str, p, parts[k].text)
         THEN MatchParts(str, p + Len(parts[k].text), parts, k + 1, groups)
         ELSE [ok |-> FALSE]
    ELSE IF parts[k].kind = "rest"
    THEN IF LineEnd(str, p) > p
         THEN MatchParts(str, LineEnd(str, p), parts, k + 1,
                         Append(groups, <<p, LineEnd(str, p)>>))
         ELSE [ok |-> FALSE]
    ELSE IF parts[k].kind = "int"
    THEN IF DigitsEnd(str, p) > p
         THEN MatchParts(str, DigitsEnd(str, p), parts, k + 1,
                         Append(groups, <<p, DigitsEnd(str, p)>>))
         ELSE [ok |-> FALSE]
    ELSE IF NumberEnd(str, p) > p
         THEN MatchParts(str, NumberEnd(str, p), parts, k + 1,
                         Append(groups, <<p, NumberEnd(str, p)>>))
         ELSE [ok |-> FALSE]

\* The groups 2 to 9 of a match of the rest of the pattern, given the match
\* with the optional part and the match without it: the optional part is
\* tried first.  The groups 4 and 5 are None when it did not take part.
TailGroups(with_ts, without_ts) ==
    IF with_ts.ok
    THEN [ok |-> TRUE, g2 |-> with_ts.groups[1], g3 |-> with_ts.groups[2],
          g4 |-> Some(with_ts.groups[3]), g5 |-> Some(with_ts.groups[4]),
          g6 |-> with_ts.groups[5], g7 |-> with_ts.groups[6],
          g8 |-> with_ts.groups[7], g9 |-> with_ts.groups[8]]
    ELSE IF without_ts.ok
    THEN [ok |-> TRUE, g2 |-> without_ts.groups[1], g3 |-> without_ts.groups[2],
          g4 |-> None, g5 |-> None,
          g6 |-> without_ts.groups[3], g7 |-> without_ts.groups[4],
          g8 |-> without_ts.groups[5], g9 |-> without_ts.groups[6]]
    ELSE [ok |-> FALSE]

\* The pattern after group 1, tried at p.
TailMatch(str, p) ==
    TailGroups(MatchParts(str, p, PatternHead \o PatternTimeSignature \o PatternRest, 1, <<>>),
               MatchParts(str, p, PatternHead \o PatternRest, 1, <<>>))

\* re.match(pattern, filename): group 1 is (.+?), the shortest non-empty
\* prefix without a line break after which the rest of the pattern matches.
\* <<>> for no match.
match_at(filename, ends) ==
    IF ends = {} THEN None
    ELSE Some([g1 |-> <<1, MinOf(ends)>>] @@ TailMatch(filename, MinOf(ends)))

re_match(filename) ==
    match_at(filename, {p \in 2..LineEnd(filename, 1) : TailMatch(filename, p).ok})

Group(str, g) == SubSeq(str, g[1], g[2] - 1)

\* int(match.group(n)) for one of the optional groups 4 and 5 (lines 26-27):
\* int(None) raises TypeError.
int_of_group(str, g) ==
    IF g = None THEN [raised |-> TRUE, value |-> 0]
    ELSE [raised |-> FALSE, value |-> IntOfStr(Group(str, g[1]))]

\* The dict built from a match (lines 21-34), or TypeError.
\* bpm is held in hundredths, the times (seconds) in milliseconds.
result_of_match(filename, m, numerator, denominator) ==
    IF numerator.raised \/ denominator.raised
    THEN [outcome |-> "TypeError"]
    ELSE [outcome |-> "ok",
          result |->
              [base_name |-> Group(filename, m.g1),
               segment_number |-> IntOfStr(Group(filename, m.g2)),
               bpm |-> FloatOfStr(Group(filename, m.g3), 2),
               time_signature |-> [numerator |-> numerator.value,
                                   denominator |-> denominator.value],
               start_time |-> FloatOfStr(Group(filename, m.g6), 3),
               end_time |-> FloatOfStr(Group(filename, m.g7), 3),
               duration |-> FloatOfStr(Group(filename, m.g8), 3),
               file_extension |-> Group(filename, m.g9)]]

\* Lines 18-34, given the match.
parse_match(filename, match) ==
    IF match = None
    THEN [outcome |-> "ValueError", names |-> filename]
    ELSE result_of_match(filename, match[1], int_of_group(filename, match[1].g4),
                         int_of_group(filename, match[1].g5))

\* The call's outcome: "ok" with the dict it returns, "ValueError" with the
\* filename its message names (line 19), or "TypeError" (lines 26-27).
parse_segment_filename(filename) == parse_match(filename, re_match(filename))

(***************************************************************************)
(* The filename codec: a name is generated for a segment of                *)
(* create_tempo_segments and the name of the source (split.py lines 93,    *)
(* 103-108), a file validate_inputs has let pass (util.py lines 13-20: it  *)
(* ends in .synth, in either case), or is the name of a path of the list   *)
(* merge_synth_segments is                                                 *)
(* given (merging.py lines 38, 55), and then parsed (merging.py line 58).  *)
(* The list is any list of paths: only merge_synth_segments_from_folder    *)
(* (line 162) keeps to the names that end in _Segment.synth.               *)
(***************************************************************************)
BasePaths == {[stem |-> <<"T", "h", "e", "C", "r", "o", "w", "i", "n", "g">>, suffix |-> <<".", "s", "y", "n", "t", "h">>],
              [stem |-> <<"a", "_", "1", "_", "B", "P", "M", "2">>, suffix |-> <<".", "s", "y", "n", "t", "h">>],
              [stem |-> <<"S", LineBreak>>, suffix |-> <<".", "S", "Y", "N", "T", "H">>]}
\* (index, total_count) pairs: the padding to 2 digits and to 1 digit.
IndexCounts == {<<0, 10>>, <<2, 3>>, <<11, 12>>}
\* (start_ms, end_ms) in microseconds: whole numbers of milliseconds, times
\* with a fraction of a millisecond, and an end before the start.  The
\* duration is the one create_tempo_segments gives the segment, and every
\* segment of it has a time signature (audio.py lines 81-96).
SegmentSpans == {<<0, 228706000>>, <<1500000, 4000000>>, <<10000, 2500000>>,
                 <<63, 563>>, <<1500000, 1000000>>}
DurationOf(sp) == FlDifference(MillisecondsDouble(sp[2]), MillisecondsDouble(sp[1]))
\* The BPM of a segment is round(tempo2bpm(tempo), 2) of a tempo of the
\* file (midi.py lines 149-155), in hundredths: 170, 120.5, and the 10001.67
\* of a tempo of 5999.
FilenameBPMs == {17000, 12050, 1000167}
FilenameSegments ==
    {[bpm |-> b, start_ms |-> sp[1], end_ms |-> sp[2], duration_ms |-> DurationOf(sp),
      time_signature |-> ts] :
        b \in FilenameBPMs, sp \in SegmentSpans,
        ts \in {[numerator |-> 4, denominator |-> 4], [numerator |-> 6, denominator |-> 8]}}

\* Names of paths in the list that generate_segment_filename did not write:
\* the docstring's expected format (merging.py line 13), the same with a
\* time signature, names outside the grammar, names with a line break, in
\* the extension and in the base name, and names with digits beyond ASCII:
\* decimal digits (Arabic-Indic, fullwidth) and a superscript two, which is
\* no decimal digit.
DocstringName == <<"T", "h", "e", "C", "r", "o", "w", "i", "n", "g", "_", "0", "1", "_", "B", "P", "M", "1", "7", "0", "_", "0", "s", "-", "2", "2", "8", ".", "7", "0", "6", "s", "_", "d", "u", "r", "2", "2", "8", ".", "7", "0", "6", "s", "_", "S", "e", "g", "m", "e", "n", "t", ".", "s", "y", "n", "t", "h">>
GivenNames ==
    {DocstringName,
     <<"T", "h", "e", "C", "r", "o", "w", "i", "n", "g", "_", "0", "1", "_", "B", "P", "M", "1", "7", "0", "_", "T", "i", "m", "e", "S", "i", "g", "n", "a", "t", "u", "r", "e", "4", "-", "4", "_", "0", "s", "-", "2", "2", "8", ".", "7", "0", "6", "s", "_", "d", "u", "r", "2", "2", "8", ".", "7", "0", "6", "s", "_", "S", "e", "g", "m", "e", "n", "t", ".", "s", "y", "n", "t", "h">>,
     <<"S", "o", "n", "g", "_", "2", "_", "B", "P", "M", "1", "2", "0", ".", "5", "_", "T", "i", "m", "e", "S", "i", "g", "n", "a", "t", "u", "r", "e", "3", "-", "4", "_", "1", ".", "5", "s", "-", "4", "s", "_", "d", "u", "r", "2", ".", "5", "s", "_", "S", "e", "g", "m", "e", "n", "t", ".", "s", "y", "n", "t", "h">>,
     <<"S", "o", "n", "g", "_", "2", "_", "B", "P", "M", "_", "1", ".", "5", "s", "-", "4", "s", "_", "d", "u", "r", "2", ".", "5", "s", "_", "S", "e", "g", "m", "e", "n", "t", ".", "s", "y", "n", "t", "h">>,
     <<"S", "o", "n", "g", "_", "2", "_", "B", "P", "M", "1", "2", "0", "_", "1", ".", "5", "s", "-", "4", "s", "_", "d", "u", "r", "2", ".", "5", "s", "_", "S", "e", "g", "m", "e", "n", "t">>,
     <<"n", "o", "t", "e", "s", "_", "S", "e", "g", "m", "e", "n", "t", ".", "s", "y", "n", "t", "h">>,
     <<"S", "_", "2", "_", "B", "P", "M", "1", "_", "T", "i", "m", "e", "S", "i", "g", "n", "a", "t", "u", "r", "e", "4", "-", "4", "_", "1", "s", "-", "4", "s", "_", "d", "u", "r", "2", "s", "_", "S", "e", "g", "m", "e", "n", "t", ".", "s", "y", LineBreak, "n", "t", "h">>,
     <<"S", LineBreak, "_", "2", "_", "B", "P", "M", "1", "_", "T", "i", "m", "e", "S", "i", "g", "n", "a", "t", "u", "r", "e", "4", "-", "4", "_", "1", "s", "-", "4", "s", "_", "d", "u", "r", "2", "s", "_", "S", "e", "g", "m", "e", "n", "t", ".", "s">>,
     <<"a", LineBreak, "b", "_", "S", "_", "2", "_", "B", "P", "M", "1", "_", "T", "i", "m", "e", "S", "i", "g", "n", "a", "t", "u", "r", "e", "4", "-", "4", "_", "1", "s", "-", "4", "s", "_", "d", "u", "r", "2", "s", "_", "S", "e", "g", "m", "e", "n", "t", ".", "s">>,
     <<"S", "o", "n", "g", "_", "U+0662", "_", "B", "P", "M", "U+0661", "U+0662", "U+0660", ".", "U+0665", "_", "T", "i", "m", "e", "S", "i", "g", "n", "a", "t", "u", "r", "e", "U+FF13", "-", "4", "_", "1", ".", "5", "s", "-", "4", "s", "_", "d", "u", "r", "2", ".", "5", "s", "_", "S", "e", "g", "m", "e", "n", "t", ".", "s", "y", "n", "t", "h">>,
     <<"S", "o", "n", "g", "_", "U+00B2", "_", "B", "P", "M", "1", "2", "0", "_", "T", "i", "m", "e", "S", "i", "g", "n", "a", "t", "u", "r", "e", "3", "-", "4", "_", "1", ".", "5", "s", "-", "4", "s", "_", "d", "u", "r", "2", ".", "5", "s", "_", "S", "e", "g", "m", "e", "n", "t", ".", "s", "y", "n", "t", "h">>,
     <<"S", "o", "n", "g", "_", "U+0662", "_", "B", "P", "M", "1", "2", "0", "_", "1", ".", "5", "s", "-", "4", "s", "_", "d", "u", "r", "2", ".", "5", "s", "_", "S", "e", "g", "m", "e", "n", "t", ".", "s", "y", "n", "t", "h">>}

CodecIdle ==
    /\ fn_args = [base_path |-> [stem |-> <<"a">>, suffix |-> <<>>], index |-> 0,
                  total_count |-> 1,
                  segment |-> [bpm |-> 12000, start_ms |-> 0, end_ms |-> 0,
                               duration_ms |-> FlDifference(FlZero, FlZero),
                               time_signature |-> [numerator |-> 4, denominator |-> 4]]]
    /\ fn_name = None
    /\ fn_made = FALSE
    /\ fn_parsed = None

CodecCall ==
    /\ fn_args \in {[base_path |-> bp, index |-> ic[1], total_count |-> ic[2], segment |-> sg] :
                       bp \in BasePaths, ic \in IndexCounts, sg \in FilenameSegments}
    /\ fn_name = None
    /\ fn_made = FALSE
    /\ fn_parsed = None

GenerateFilename ==
    /\ fn_name = None
    /\ fn_name' = Some(generate_segment_filename(fn_args.base_path, fn_args.index,
                                                 fn_args.total_count, fn_args.segment))
    /\ fn_made' = TRUE
    /\ UNCHANGED <<fn_args, fn_parsed, fn_others>>

GiveFilename ==
    /\ fn_name = None
    /\ \E name \in GivenNames : fn_name' = Some(name)
    /\ fn_made' = FALSE
    /\ UNCHANGED <<fn_args, fn_parsed, fn_others>>

ParseFilename ==
    /\ fn_name # None
    /\ fn_parsed = None
    /\ fn_parsed' = Some(parse_segment_filename(fn_name[1]))
    /\ UNCHANGED <<fn_args, fn_name, fn_made, fn_others>>

(***************************************************************************)
(* C4, C5                                                                  *)
(***************************************************************************)
\* The metadata read back from a generated name is the metadata it was
\* generated from.
RoundTripOf(args, parsed) ==
    /\ parsed.outcome = "ok"
    /\ parsed.result.base_name = args.base_path.stem
    /\ parsed.result.segment_number = args.index + 1
    /\ parsed.result.bpm = args.segment.bpm
    /\ "time_signature" \in DOMAIN args.segment =>
           parsed.result.time_signature = args.segment.time_signature
    /\ parsed.result.start_time * 1000 = args.segment.start_ms
    /\ parsed.result.end_time * 1000 = args.segment.end_ms
    /\ MillisecondsDouble(parsed.result.duration * 1000) = args.segment.duration_ms.magnitude
    /\ ~args.segment.duration_ms.negative
    /\ <<".">> \o parsed.result.file_extension = args.base_path.suffix

\* The segment number is index + 1, zero-padded to the digits of the total.
PaddedNumberOf(args, name) ==
    StartsWith(name, Len(args.base_path.stem) + 1,
               <<"_">> \o zfill(StrOfNat(args.index + 1), Len(StrOfNat(args.total_count)))
               \o LitBPM)

ExampleArgs ==
    [base_path |-> [stem |-> <<"T", "h", "e", "C", "r", "o", "w", "i", "n", "g">>, suffix |-> <<".", "s", "y", "n", "t", "h">>],
     index |-> 0, total_count |-> 10,
     segment |-> [bpm |-> 17000, start_ms |-> 0, end_ms |-> 228706000,
                  duration_ms |-> [negative |-> FALSE, magnitude |-> FlOfInt(228706)],
                  time_signature |-> [numerator |-> 4, denominator |-> 4]]]
ExampleName == <<"T", "h", "e", "C", "r", "o", "w", "i", "n", "g", "_", "0", "1", "_", "B", "P", "M", "1", "7", "0", "_", "T", "i", "m", "e", "S", "i", "g", "n", "a", "t", "u", "r", "e", "4", "-", "4", "_", "0", "s", "-", "2", "2", "8", ".", "7", "0", "6", "s", "_", "d", "u", "r", "2", "2", "8", ".", "7", "0", "6", "s", "_", "S", "e", "g", "m", "e", "n", "t", ".", "s", "y", "n", "t", "h">>

\* The times of the metadata have at most 3 decimals (seconds) and the
\* duration is not negative.
ThreeDecimals(segment) ==
    /\ segment.start_ms % 1000 = 0
    /\ segment.end_ms % 1000 = 0
    /\ ~segment.duration_ms.negative
    /\ FlIsWhole(segment.duration_ms.magnitude)

\* C4: for every segment metadata whose times have at most 3 decimals, with
\* or without a time signature, the name generate_segment_filename writes is
\* parsed back by parse_segment_filename to the same base name, segment
\* number, BPM, time signature, start, end, duration and extension; and the
\* example metadata is written as the example name.
C4_RoundTrip ==
    /\ (fn_made /\ fn_parsed # None /\ ThreeDecimals(fn_args.segment)) =>
           /\ RoundTripOf(fn_args, fn_parsed[1])
           /\ PaddedNumberOf(fn_args, fn_name[1])
    /\ (fn_made /\ fn_args = ExampleArgs) => fn_name[1] = ExampleName

\* The base name is on one line: "." of the pattern matches no line break.
OnOneLine(str) == LineEnd(str, 1) = Len(str) + 1

\* "g" writes every digit of the BPM (hundredths): it has at most 6
\* significant digits.
SixSignificantDigits(bpm) == \E k \in 0..3 : bpm < Pow10(6 + k) /\ bpm % Pow10(k) = 0

\* The part of C4 the code keeps: the round trip of a segment whose BPM has
\* at most 6 significant digits, for a base name on one line, and the
\* example name.
C4_RoundTripSixDigits ==
    /\ (/\ fn_made /\ fn_parsed # None
        /\ ThreeDecimals(fn_args.segment)
        /\ SixSignificantDigits(fn_args.segment.bpm)
        /\ OnOneLine(fn_args.base_path.stem)) =>
           /\ RoundTripOf(fn_args, fn_parsed[1])
           /\ PaddedNumberOf(fn_args, fn_name[1])
    /\ (fn_made /\ fn_args = ExampleArgs) => fn_name[1] = ExampleName

\* A segment with a time signature and a BPM of 7 significant digits has been
\* written and read back, and the BPM read is not the segment's.
C4_BPMCutReached ==
    /\ fn_made /\ fn_parsed # None
    /\ ThreeDecimals(fn_args.segment)
    /\ OnOneLine(fn_args.base_path.stem)
    /\ fn_args.segment.bpm = 1000167
    /\ fn_parsed[1].outcome = "ok"
    /\ fn_parsed[1].result.bpm = 1000170

\* C4's example has been generated and parsed.
C4_ExampleReached ==
    fn_made /\ fn_args = ExampleArgs /\ fn_parsed # None /\ fn_parsed[1].outcome = "ok"

\* C5: parse_segment_filename returns the decoded metadata for every name
\* that matches the pattern, with or without the _TimeSignature part, and
\* fails with the error that names the filename for every other name;
\* nothing else happens.
C5_TwoOutcomes ==
    fn_parsed # None =>
        IF re_match(fn_name[1]) # None
        THEN fn_parsed[1].outcome = "ok"
        ELSE fn_parsed[1].outcome = "ValueError" /\ fn_parsed[1].names = fn_name[1]

\* The part of C5 the code keeps: a name that does not match fails with the
\* error naming it, a name that matches with a time signature is decoded.
C5_OutcomesWithTimeSignature ==
    fn_parsed # None =>
        LET match == re_match(fn_name[1]) IN
        /\ match = None => fn_parsed[1].outcome = "ValueError" /\ fn_parsed[1].names = fn_name[1]
        /\ (match # None /\ match[1].g4 # None) => fn_parsed[1].outcome = "ok"
        /\ (match # None /\ match[1].g4 = None) => fn_parsed[1].outcome = "TypeError"

(***************************************************************************)
(* merging.py: merge_synth_segments_from_folder, merge_synth_segments      *)
(***************************************************************************)
\* The files a folder may hold: a name, and whether SynthFile.from_synth
\* can load the file.  Segments starting at 10 s, 0 s and 5 s, a segment
\* without a time signature, a name outside the grammar, a segment file that
\* cannot be loaded, and a file that is no segment.
FolderFiles ==
    {[name |-> <<"S", "_", "3", "_", "B", "P", "M", "1", "2", "0", "_", "T", "i", "m", "e", "S", "i", "g", "n", "a", "t", "u", "r", "e", "4", "-", "4", "_", "1", "0", "s", "-", "1", "2", "s", "_", "d", "u", "r", "2", "s", "_", "S", "e", "g", "m", "e", "n", "t", ".", "s", "y", "n", "t", "h">>, loads |-> TRUE],
     [name |-> <<"S", "_", "1", "_", "B", "P", "M", "1", "2", "0", "_", "T", "i", "m", "e", "S", "i", "g", "n", "a", "t", "u", "r", "e", "4", "-", "4", "_", "0", "s", "-", "5", "s", "_", "d", "u", "r", "5", "s", "_", "S", "e", "g", "m", "e", "n", "t", ".", "s", "y", "n", "t", "h">>, loads |-> TRUE],
     [name |-> <<"S", "_", "2", "_", "B", "P", "M", "1", "5", "0", "_", "T", "i", "m", "e", "S", "i", "g", "n", "a", "t", "u", "r", "e", "3", "-", "4", "_", "5", "s", "-", "1", "0", "s", "_", "d", "u", "r", "5", "s", "_", "S", "e", "g", "m", "e", "n", "t", ".", "s", "y", "n", "t", "h">>, loads |-> TRUE],
     [name |-> <<"S", "_", "1", "_", "B", "P", "M", "1", "2", "0", "_", "0", "s", "-", "5", "s", "_", "d", "u", "r", "5", "s", "_", "S", "e", "g", "m", "e", "n", "t", ".", "s", "y", "n", "t", "h">>, loads |-> TRUE],
     [name |-> <<"S", "_", "B", "P", "M", "1", "2", "0", "_", "S", "e", "g", "m", "e", "n", "t", ".", "s", "y", "n", "t", "h">>, loads |-> TRUE],
     [name |-> <<"S", "_", "4", "_", "B", "P", "M", "9", "0", "_", "T", "i", "m", "e", "S", "i", "g", "n", "a", "t", "u", "r", "e", "4", "-", "4", "_", "5", "s", "-", "7", "s", "_", "d", "u", "r", "2", "s", "_", "S", "e", "g", "m", "e", "n", "t", ".", "s", "y", "n", "t", "h">>, loads |-> FALSE],
     [name |-> <<"S", ".", "s", "y", "n", "t", "h">>, loads |-> TRUE]}

\* Listings: sequences of distinct files, in any order.
Listings(max_files) ==
    {l \in SeqUpTo(FolderFiles, max_files) : \A a, b \in 1..Len(l) : a # b => l[a] # l[b]}

EndsWith(str, lit) ==
    Len(str) >= Len(lit) /\ SubSeq(str, Len(str) - Len(lit) + 1, Len(str)) = lit

\* folder.glob("*_Segment.synth") (line 162), in the listing's order.
glob(listing) == SelectSeq(listing, LAMBDA f : EndsWith(f.name, <<"_", "S", "e", "g", "m", "e", "n", "t", ".", "s", "y", "n", "t", "h">>))

\* filename_info = parse_segment_filename(segment.name) (line 58) for the
\* names the folder can hold, computed once.
filename_info == [name \in {f.name : f \in FolderFiles} |-> parse_segment_filename(name)]

\* One pass of the first loop (lines 56-60) that swallows a decoding
\* failure and keeps the file with a start time of 0.
load_segment_lenient(segment) ==
    IF ~segment.loads
    THEN [error |-> "LoadError", entry |-> <<>>]
    ELSE IF filename_info[segment.name].outcome # "ok"
    THEN [error |-> "", entry |-> <<[info |-> [start_time |-> 0], name |-> segment.name]>>]
    ELSE [error |-> "",
          entry |-> <<[info |-> filename_info[segment.name].result,
                       name |-> segment.name]>>]

\* One pass of the first loop (lines 56-60): the entry appended to
\* segment_data, or the exception raised.
load_segment(segment) ==
    IF filename_info[segment.name].outcome # "ok"
    THEN [error |-> filename_info[segment.name].outcome, entry |-> <<>>]
    ELSE IF ~segment.loads
    THEN [error |-> "LoadError", entry |-> <<>>]
    ELSE [error |-> "",
          entry |-> <<[info |-> filename_info[segment.name].result,
                       name |-> segment.name]>>]

\* x put after the entries of the sorted list that start no later than it.
insert_last(sorted_data, x) ==
    SelectSeq(sorted_data, LAMBDA e : e.info.start_time <= x.info.start_time)
    \o <<x>>
    \o SelectSeq(sorted_data, LAMBDA e : e.info.start_time > x.info.start_time)

\* list.sort(key=start_time) left out.
unsorted(segment_data) == segment_data

RECURSIVE sort_by_start_time(_)
\* segment_data.sort(key=lambda x: x[0]["start_time"]) (line 63): stable.
sort_by_start_time(segment_data) ==
    IF segment_data = <<>> THEN <<>>
    ELSE insert_last(sort_by_start_time(SubSeq(segment_data, 1, Len(segment_data) - 1)),
                     segment_data[Len(segment_data)])

MergeIdle ==
    /\ mg_call = [entry |-> "folder", files |-> <<>>, base_loads |-> TRUE, output_path |-> FALSE]
    /\ mg_pc = "idle"
    /\ mg_segments = <<>>
    /\ mg_segment_data = <<>>
    /\ mg_merged = <<>>
    /\ mg_bookmarks = <<>>
    /\ mg_saved = FALSE
    /\ mg_error = ""

\* join.py calls merge_synth_segments_from_folder with an output path; both
\* functions can also be called directly.
MergeCall ==
    /\ mg_call \in [entry : {"folder", "direct"}, files : Listings(MaxFiles), base_loads : BOOLEAN,
                    output_path : BOOLEAN]
    /\ mg_call.entry = "direct" => ~mg_call.output_path
    /\ mg_pc = "start"
    /\ mg_segments = <<>>
    /\ mg_segment_data = <<>>
    /\ mg_merged = <<>>
    /\ mg_bookmarks = <<>>
    /\ mg_saved = FALSE
    /\ mg_error = ""

\* merge_synth_segments_from_folder, lines 159-170: list the folder, raise
\* when no segment file is found, else call merge_synth_segments.
ListFolder ==
    /\ mg_pc = "start"
    /\ mg_call.entry = "folder"
    /\ IF glob(mg_call.files) = <<>>
       THEN mg_pc' = "raised" /\ mg_error' = "ValueError" /\ UNCHANGED mg_segments
       ELSE mg_pc' = "load" /\ mg_segments' = glob(mg_call.files) /\ UNCHANGED mg_error
    /\ UNCHANGED <<mg_call, mg_segment_data, mg_merged, mg_bookmarks, mg_saved, mg_others>>

\* merge_synth_segments called with a list of paths.
CallMerge ==
    /\ mg_pc = "start"
    /\ mg_call.entry = "direct"
    /\ mg_pc' = "load"
    /\ mg_segments' = mg_call.files
    /\ UNCHANGED <<mg_call, mg_segment_data, mg_merged, mg_bookmarks, mg_saved, mg_error, mg_others>>

\* One pass of the first loop (lines 56-60).
LoadSegment ==
    /\ mg_pc = "load"
    /\ Len(mg_segment_data) < Len(mg_segments)
    /\ IF load_segment(mg_segments[Len(mg_segment_data) + 1]).error # ""
       THEN /\ mg_pc' = "raised"
            /\ mg_error' = load_segment(mg_segments[Len(mg_segment_data) + 1]).error
            /\ mg_segments' = <<>>
            /\ mg_segment_data' = <<>>
       ELSE /\ mg_segment_data' =
                mg_segment_data \o load_segment(mg_segments[Len(mg_segment_data) + 1]).entry
            /\ UNCHANGED <<mg_pc, mg_error, mg_segments>>
    /\ UNCHANGED <<mg_call, mg_merged, mg_bookmarks, mg_saved, mg_others>>

\* Lines 63-71: sort segment_data by start time, raise when it is empty,
\* load the base beatmap and start merged_file from it.
SortSegments ==
    /\ mg_pc = "load"
    /\ Len(mg_segment_data) = Len(mg_segments)
    /\ IF mg_segment_data = <<>>
       THEN mg_pc' = "raised" /\ mg_error' = "ValueError" /\ UNCHANGED mg_segment_data
       ELSE IF ~mg_call.base_loads
       THEN mg_pc' = "raised" /\ mg_error' = "LoadError" /\ mg_segment_data' = <<>>
       ELSE /\ mg_pc' = "merge"
            /\ mg_segment_data' = sort_by_start_time(mg_segment_data)
            /\ UNCHANGED mg_error
    /\ UNCHANGED <<mg_call, mg_segments, mg_merged, mg_bookmarks, mg_saved, mg_others>>

\* The notes of a segment file's Expert difficulty: for each note type the
\* positions of its notes.  A position is held as the time it denotes, in
\* milliseconds, which is what merge keeps when it adjusts the segment to
\* the merged file's BPM.  A segment file's own bookmarks are left out.
SegmentNotes ==
    {[right |-> {}, left |-> {}, single |-> {}, both |-> {}],
     [right |-> {2000, 4000}, left |-> {3000}, single |-> {}, both |-> {}],
     [right |-> {}, left |-> {}, single |-> {0}, both |-> {1000}]}

\* segment_copy.offset_everything(delta_s=start_time) (line 96), on the notes.
offset_everything(notes, delta_s) ==
    [type \in DOMAIN notes |-> {position + delta_s : position \in notes[type]}]

\* all_note_positions (lines 100-116); only its minimum and maximum are used.
all_note_positions(notes) == notes.right \cup notes.left \cup notes.single \cup notes.both

\* first (lines 119-127): the minimum position, 0 when there is no note.
first_position(notes) ==
    IF all_note_positions(notes) # {} THEN MinOf(all_note_positions(notes)) ELSE 0

\* The bookmark's text (line 129): the BPM of the segment file, for which
\* the file's name stands, and beats_per_measure (lines 81-83).
bookmark_text(data) ==
    [segment |-> data.name,
     beats_per_measure |-> IF "time_signature" \in DOMAIN data.info
                           THEN data.info.time_signature.numerator ELSE 4]

\* segment_copy.bookmarks[first] = text (line 129).
set_bookmark(bookmarks, first, text) ==
    [position \in DOMAIN bookmarks \cup {first} |->
        IF position = first THEN text ELSE bookmarks[position]]

\* merged_file.merge(segment_copy, adjust_bpm=True) (line 135), on the
\* bookmarks: the segment's bookmarks are put into the merged file's dict.
merge_bookmarks(bookmarks, segment_bookmarks) ==
    [position \in DOMAIN bookmarks \cup DOMAIN segment_bookmarks |->
        IF position \in DOMAIN segment_bookmarks THEN segment_bookmarks[position]
        ELSE bookmarks[position]]

\* One pass of the second loop, given the notes of the segment file.
merged_segment(data, notes) ==
    [info |-> data.info, name |-> data.name,
     notes |-> offset_everything(notes, data.info.start_time),
     first |-> first_position(offset_everything(notes, data.info.start_time))]

\* One pass of the second loop (lines 74-138): the next segment of
\* segment_data is shifted by its start time, given its bookmark and merged
\* into merged_file.
MergeSegment ==
    /\ mg_pc = "merge"
    /\ Len(mg_merged) < Len(mg_segment_data)
    /\ \E notes \in SegmentNotes :
          /\ mg_merged' = Append(mg_merged,
                                 merged_segment(mg_segment_data[Len(mg_merged) + 1], notes))
          /\ mg_bookmarks' =
                merge_bookmarks(mg_bookmarks,
                    set_bookmark(<<>>,
                        merged_segment(mg_segment_data[Len(mg_merged) + 1], notes).first,
                        bookmark_text(mg_segment_data[Len(mg_merged) + 1])))
    /\ UNCHANGED <<mg_call, mg_pc, mg_segments, mg_segment_data, mg_saved, mg_error, mg_others>>

\* merge_synth_segments returns merged_file (line 140);
\* merge_synth_segments_from_folder saves it when it has an output path
\* (lines 173-176), which the file system may refuse.
ReturnMerged ==
    /\ mg_pc = "merge"
    /\ Len(mg_merged) = Len(mg_segment_data)
    /\ \/ /\ mg_call.output_path
          /\ \E written \in BOOLEAN :
                IF written
                THEN mg_saved' = TRUE /\ mg_pc' = "done" /\ UNCHANGED mg_error
                ELSE mg_pc' = "raised" /\ mg_error' = "SaveError" /\ UNCHANGED mg_saved
       \/ /\ ~mg_call.output_path
          /\ mg_pc' = "done"
          /\ UNCHANGED <<mg_saved, mg_error>>
    /\ UNCHANGED <<mg_call, mg_segments, mg_segment_data, mg_merged, mg_bookmarks, mg_others>>

(***************************************************************************)
(* C6, C7                                                                  *)
(***************************************************************************)
\* C6: the segments are merged in ascending order of the start time decoded
\* from their names, for every listing order: a segment is never merged
\* after one that starts later, and a run that ends has merged every listed
\* segment.
C6_MergeOrder ==
    /\ \A a, b \in 1..Len(mg_merged) :
          mg_merged[a].info.start_time < mg_merged[b].info.start_time => a < b
    /\ mg_pc = "done" =>
          /\ Len(mg_merged) = Len(mg_segments)
          /\ \A n \in 1..Len(mg_segments) :
                \E a \in 1..Len(mg_merged) : mg_merged[a].name = mg_segments[n].name

\* The files listed with starts 10 s, 0 s, 5 s have been merged in the order
\* 0 s, 5 s, 10 s.
C6_Witness ==
    /\ mg_pc = "done"
    /\ Len(mg_segments) = 3
    /\ filename_info[mg_segments[1].name].result.start_time = 10000
    /\ filename_info[mg_segments[2].name].result.start_time = 0
    /\ filename_info[mg_segments[3].name].result.start_time = 5000
    /\ mg_merged[1].info.start_time = 0
    /\ mg_merged[2].info.start_time = 5000
    /\ mg_merged[3].info.start_time = 10000

\* The files the run is about: those the folder's glob lists, or the list
\* given to merge_synth_segments.
MergeInput == IF mg_call.entry = "folder" THEN glob(mg_call.files) ELSE mg_call.files

\* C7: with an empty segment set, or a segment name at any position that
\* fails to decode, the run raises before any segment is merged and saves no
\* output: a run so ended has merged and saved nothing, and whenever a
\* segment has been merged or the output saved, the set is not empty and
\* every name decodes.
C7_MergeAborts ==
    /\ mg_error \in {"ValueError", "TypeError"} => mg_merged = <<>> /\ ~mg_saved
    /\ (mg_merged # <<>> \/ mg_saved \/ mg_pc = "done") =>
          /\ MergeInput # <<>>
          /\ \A n \in 1..Len(MergeInput) :
                filename_info[MergeInput[n].name].outcome = "ok"
    /\ mg_saved => mg_pc = "done" /\ Len(mg_merged) = Len(MergeInput)

\* A run over three files raised on the last one's name, the first two
\* decoded, with nothing merged and nothing saved.
C7_Witness ==
    /\ mg_pc = "raised"
    /\ mg_error = "ValueError"
    /\ Len(MergeInput) = 3
    /\ filename_info[MergeInput[1].name].outcome = "ok"
    /\ filename_info[MergeInput[2].name].outcome = "ok"
    /\ filename_info[MergeInput[3].name].outcome = "ValueError"
    /\ mg_call.output_path
    /\ mg_merged = <<>>
    /\ ~mg_saved

(***************************************************************************)
(* midi.py: extract_tempo_changes, extract_time_signature_changes,        *)
(* extract_tempo_and_time_signature_changes                                *)
(***************************************************************************)
\* A MIDI file is its ticks_per_beat and its tracks; a track is a sequence
\* of messages with their delta times (msg.time) in ticks.
RECURSIVE absolute_times(_, _, _, _)
\* A track's messages from the n-th on with their absolute ticks: the
\* running sum current_time_ticks += msg.time (lines 65-68 and 90-93).
absolute_times(track, track_idx, n, current_time_ticks) ==
    IF n > Len(track) THEN <<>>
    ELSE <<[msg |-> track[n], time_ticks |-> current_time_ticks + track[n].time,
            track |-> track_idx]>>
         \o absolute_times(track, track_idx, n + 1, current_time_ticks + track[n].time)

RECURSIVE all_messages(_, _)
\* for track_idx, track in enumerate(midi_file.tracks), from the n-th track on.
all_messages(tracks, n) ==
    IF n > Len(tracks) THEN <<>>
    ELSE absolute_times(tracks[n], n - 1, 1, 0) \o all_messages(tracks, n + 1)

messages_of_type(midi_file, type) ==
    SelectSeq(all_messages(midi_file.tracks, 1), LAMBDA m : m.msg.type = type)

\* x put after the events of the sorted list at a tick no later than its own.
insert_by_time_ticks(sorted_events, x) ==
    SelectSeq(sorted_events, LAMBDA e : e.time_ticks <= x.time_ticks)
    \o <<x>>
    \o SelectSeq(sorted_events, LAMBDA e : e.time_ticks > x.time_ticks)

RECURSIVE sort_by_time_ticks(_)
\* all_tempo_events.sort(key=lambda x: x['time_ticks']) (line 80): stable.
sort_by_time_ticks(events) ==
    IF events = <<>> THEN <<>>
    ELSE insert_by_time_ticks(sort_by_time_ticks(SubSeq(events, 1, Len(events) - 1)),
                              events[Len(events)])

\* The event appended for a set_tempo message (lines 71-75).
tempo_event(m) == [time_ticks |-> m.time_ticks, tempo |-> m.msg.tempo, track |-> m.track]

tempo_events_of(found) == [n \in 1..Len(found) |-> tempo_event(found[n])]

extract_tempo_changes(midi_file) ==
    sort_by_time_ticks(tempo_events_of(messages_of_type(midi_file, "set_tempo")))

\* x put after the changes of the sorted list at a time no later than its own.
insert_by_time_ms(sorted_changes, x) ==
    SelectSeq(sorted_changes, LAMBDA e : e.time_ms <= x.time_ms)
    \o <<x>>
    \o SelectSeq(sorted_changes, LAMBDA e : e.time_ms > x.time_ms)

RECURSIVE sort_by_time_ms(_)
\* time_sig_changes.sort(key=lambda x: x['time_ms']) (line 112): stable.
sort_by_time_ms(changes) ==
    IF changes = <<>> THEN <<>>
    ELSE insert_by_time_ms(sort_by_time_ms(SubSeq(changes, 1, Len(changes) - 1)),
                           changes[Len(changes)])

\* The change appended for a time_signature message (lines 96-110); time_ms
\* is absolute_time * 1000, held as the numerator over ticks_per_beat.
time_sig_change(m, ticks_per_beat, tempo_events, initial_tempo) ==
    [numerator |-> m.msg.numerator,
     denominator |-> m.msg.denominator,
     time_ticks |-> m.time_ticks,
     time_ms |-> seconds_times_1000(
                     calculate_time_from_ticks(m.time_ticks, ticks_per_beat, tempo_events,
                                               initial_tempo)),
     track |-> m.track]

time_sig_changes_of(found, ticks_per_beat, tempo_events, initial_tempo) ==
    [n \in 1..Len(found) |->
        time_sig_change(found[n], ticks_per_beat, tempo_events, initial_tempo)]

extract_time_signature_changes(midi_file, tempo_events, initial_tempo) ==
    sort_by_time_ms(time_sig_changes_of(messages_of_type(midi_file, "time_signature"),
                                        midi_file.ticks_per_beat, tempo_events, initial_tempo))

\* round(mido.tempo2bpm(tempo), 2) for a tempo that is a double, in
\* hundredths of a BPM: mido computes 60 * 1e6 / tempo * 4 / 4., of which
\* the division alone rounds, and round() rounds that double, a tie to the
\* even digit.
tempo2bpm_double(tempo) == FlRoundDecimal(FlDiv(FlOfInt(60000000), tempo), 100)

\* The same for a tempo that is an int, 0 < tempo < 2^24: 60000000 / tempo
\* rounded to 2 decimals.  The double of the quotient is so close to it that
\* it rounds as the quotient does, unless the quotient is halfway between
\* two hundredths: there the double decides.  tempo2bpm divides by tempo:
\* tempo 0 raises.
tempo2bpm(tempo) ==
    IF 2 * (((60000000 % tempo) * 100) % tempo) = tempo
    THEN tempo2bpm_double(FlOfInt(tempo))
    ELSE (60000000 \div tempo) * 100 + ((60000000 % tempo) * 100) \div tempo
         + (IF 2 * (((60000000 % tempo) * 100) % tempo) > tempo THEN 1 ELSE 0)

\* current_tempo = 60000000 / bpm (line 124): a double.
base_tempo_of(bpm) == FlDiv(FlOfInt(60000000), BPMDouble(bpm))

\* A tempo as the model holds it: the integer when it is a whole number (an
\* int, or a float equal to one), the double otherwise.
TempoOf(tempo) == IF FlIsWhole(tempo) THEN FlFloor(tempo) ELSE tempo

\* 60000000 / bpm (line 124) for a bpm in hundredths, as the model holds it.
\* A whole bpm that divides 60000000 gives the whole quotient exactly.
bpm2tempo(bpm) ==
    IF bpm % 100 = 0 /\ 60000000 % (bpm \div 100) = 0
    THEN 60000000 \div (bpm \div 100)
    ELSE TempoOf(base_tempo_of(bpm))

\* Whether a time held as a numerator over ticks_per_beat is halfway between
\* two whole microseconds.
is_tie(time_ms, ticks_per_beat) == 2 * (time_ms % ticks_per_beat) = ticks_per_beat

\* round(time_ms, 3): the ChangeMap key (microseconds) of a time held as a
\* numerator over ticks_per_beat, given time_double, the double the code
\* has computed for it (milliseconds).  The double is so close to the time
\* that it rounds as the time does, unless the time is halfway between two
\* keys: there the double decides, as the code computed it.
round_ms(time_ms, ticks_per_beat, time_double) ==
    IF is_tie(time_ms, ticks_per_beat)
    THEN FlRoundDecimal(time_double, 1000)
    ELSE RoundDiv(time_ms, ticks_per_beat)

\* d[key][field] = value after `if key not in d: d[key] = {}` (lines 151-153
\* and 165-167).
set_field(record, field, value) ==
    [f \in DOMAIN record \cup {field} |-> IF f = field THEN value ELSE record[f]]

put(time_changes, key, field, value) ==
    [k \in DOMAIN time_changes \cup {key} |->
        IF k = key
        THEN set_field(IF key \in DOMAIN time_changes THEN time_changes[key] ELSE <<>>,
                       field, value)
        ELSE time_changes[k]]

(***************************************************************************)
(* The same lines of midi.py computed in doubles, operation by operation:  *)
(* what the code does.  A time is the double itself, a tempo event's tempo *)
(* the int of the message, current_tempo a double.                         *)
(***************************************************************************)
\* The literal 1e-6.
Micro == FlOfRatio(1, 1000000)

\* mido.tick2second(tick, ticks_per_beat, tempo): scale = tempo * 1e-6 /
\* ticks_per_beat, then tick * scale, in seconds.
tick2second_double(tick, ticks_per_beat, tempo) ==
    FlMul(FlOfInt(tick), FlDiv(FlMul(tempo, Micro), FlOfInt(ticks_per_beat)))

\* midi.py lines 33-35 and 48-50.
remaining_time_double(target_ticks, ticks_per_beat, current_time_seconds, current_tempo, last_tick_position) ==
    IF target_ticks - last_tick_position > 0
    THEN FlAdd(current_time_seconds,
               tick2second_double(target_ticks - last_tick_position, ticks_per_beat,
                                  FlOfInt(current_tempo)))
    ELSE current_time_seconds

RECURSIVE ticks_loop_double(_, _, _, _, _, _, _)
\* midi.py lines 27-50.
ticks_loop_double(target_ticks, ticks_per_beat, tempo_events, n, current_time_seconds, current_tempo, last_tick_position) ==
    IF n > Len(tempo_events)
    THEN remaining_time_double(target_ticks, ticks_per_beat, current_time_seconds,
                               current_tempo, last_tick_position)
    ELSE IF tempo_events[n].time_ticks >= target_ticks
    THEN remaining_time_double(target_ticks, ticks_per_beat, current_time_seconds,
                               current_tempo, last_tick_position)
    ELSE ticks_loop_double(target_ticks, ticks_per_beat, tempo_events, n + 1,
             IF tempo_events[n].time_ticks > last_tick_position
             THEN FlAdd(current_time_seconds,
                        tick2second_double(tempo_events[n].time_ticks - last_tick_position,
                                           ticks_per_beat, FlOfInt(current_tempo)))
             ELSE current_time_seconds,
             tempo_events[n].tempo, tempo_events[n].time_ticks)

\* midi.py lines 7-52, in seconds.
calculate_time_from_ticks_double(target_ticks, ticks_per_beat, tempo_events, initial_tempo) ==
    IF target_ticks = 0
    THEN FlZero
    ELSE ticks_loop_double(target_ticks, ticks_per_beat, tempo_events, 1, FlZero,
                           initial_tempo, 0)

\* midi.py lines 96-110: time_ms is absolute_time * 1000.
time_sig_change_double(m, ticks_per_beat, tempo_events, initial_tempo) ==
    [numerator |-> m.msg.numerator,
     denominator |-> m.msg.denominator,
     time_ticks |-> m.time_ticks,
     time_ms |-> FlMul(calculate_time_from_ticks_double(m.time_ticks, ticks_per_beat,
                                                        tempo_events, initial_tempo),
                       FlOfInt(1000)),
     track |-> m.track]

insert_by_time_ms_double(sorted_changes, x) ==
    SelectSeq(sorted_changes, LAMBDA e : ~FlLess(x.time_ms, e.time_ms))
    \o <<x>>
    \o SelectSeq(sorted_changes, LAMBDA e : FlLess(x.time_ms, e.time_ms))

RECURSIVE sort_by_time_ms_double(_)
\* midi.py line 112.
sort_by_time_ms_double(changes) ==
    IF changes = <<>> THEN <<>>
    ELSE insert_by_time_ms_double(
             sort_by_time_ms_double(SubSeq(changes, 1, Len(changes) - 1)),
             changes[Len(changes)])

time_sig_changes_of_double(found, ticks_per_beat, tempo_events, initial_tempo) ==
    [n \in 1..Len(found) |->
        time_sig_change_double(found[n], ticks_per_beat, tempo_events, initial_tempo)]

\* midi.py lines 83-113.
extract_time_signature_changes_double(midi_file, tempo_events, initial_tempo) ==
    sort_by_time_ms_double(
        time_sig_changes_of_double(messages_of_type(midi_file, "time_signature"),
                                   midi_file.ticks_per_beat, tempo_events, initial_tempo))

\* midi.py lines 141-144.
time_at_event_double(event, ticks_per_beat, current_time_ms, current_tempo, last_time_ticks) ==
    IF event.time_ticks > last_time_ticks
    THEN FlAdd(current_time_ms,
               FlMul(tick2second_double(event.time_ticks - last_time_ticks, ticks_per_beat,
                                        current_tempo),
                     FlOfInt(1000)))
    ELSE current_time_ms

\* midi.py lines 148-158.
tempo_change_double(time_changes, event, current_time_ms) ==
    put(time_changes, FlRoundDecimal(current_time_ms, 1000), "tempo",
        [time_ms |-> current_time_ms, bpm |-> tempo2bpm(event.tempo), tempo |-> event.tempo])

RECURSIVE tempo_loop_double(_, _, _, _, _, _, _)
\* midi.py lines 138-160.
tempo_loop_double(all_tempo_events, ticks_per_beat, n, current_time_ms, current_tempo, last_time_ticks, time_changes) ==
    IF n > Len(all_tempo_events)
    THEN [raised |-> FALSE, current_tempo |-> current_tempo, time_changes |-> time_changes]
    ELSE IF current_tempo = FlOfInt(all_tempo_events[n].tempo)
    THEN tempo_loop_double(all_tempo_events, ticks_per_beat, n + 1,
                           time_at_event_double(all_tempo_events[n], ticks_per_beat,
                                                current_time_ms, current_tempo,
                                                last_time_ticks),
                           current_tempo, all_tempo_events[n].time_ticks, time_changes)
    ELSE IF all_tempo_events[n].tempo = 0
    THEN [raised |-> TRUE, current_tempo |-> FlZero, time_changes |-> <<>>]
    ELSE tempo_loop_double(all_tempo_events, ticks_per_beat, n + 1,
                           time_at_event_double(all_tempo_events[n], ticks_per_beat,
                                                current_time_ms, current_tempo,
                                                last_time_ticks),
                           FlOfInt(all_tempo_events[n].tempo),
                           all_tempo_events[n].time_ticks,
                           tempo_change_double(time_changes, all_tempo_events[n],
                               time_at_event_double(all_tempo_events[n], ticks_per_beat,
                                                    current_time_ms, current_tempo,
                                                    last_time_ticks)))

\* midi.py lines 128-136.
initial_changes_double(all_tempo_events, current_tempo) ==
    IF all_tempo_events = <<>> \/ all_tempo_events[1].time_ticks > 0
    THEN 0 :> [tempo |-> [time_ms |-> FlZero, bpm |-> tempo2bpm_double(current_tempo),
                          tempo |-> TempoOf(current_tempo)]]
    ELSE <<>>

RECURSIVE time_signature_loop_double(_, _, _)
\* midi.py lines 163-170.
time_signature_loop_double(time_sig_changes, n, time_changes) ==
    IF n > Len(time_sig_changes) THEN time_changes
    ELSE time_signature_loop_double(time_sig_changes, n + 1,
             put(time_changes, FlRoundDecimal(time_sig_changes[n].time_ms, 1000),
                 "time_signature",
                 [numerator |-> time_sig_changes[n].numerator,
                  denominator |-> time_sig_changes[n].denominator]))

\* midi.py lines 162-178: int(current_tempo) is the initial tempo of the
\* time signatures.
changes_with_time_signatures_double(midi_file, all_tempo_events, tempos) ==
    IF tempos.raised
    THEN [raised |-> TRUE, time_changes |-> <<>>]
    ELSE [raised |-> FALSE,
          time_changes |->
              time_signature_loop_double(
                  extract_time_signature_changes_double(midi_file, all_tempo_events,
                                                        FlFloor(tempos.current_tempo)),
                  1, tempos.time_changes)]

changes_of_events_double(midi_file, all_tempo_events, current_tempo) ==
    changes_with_time_signatures_double(midi_file, all_tempo_events,
        tempo_loop_double(all_tempo_events, midi_file.ticks_per_beat, 1, FlZero,
                          current_tempo, 0,
                          initial_changes_double(all_tempo_events, current_tempo)))

(***************************************************************************)
(* The same lines in whole numbers: a time is a numerator over             *)
(* ticks_per_beat (microseconds), a tempo an int.  The double the code has *)
(* for the time is carried along, for the rounding of a time that is       *)
(* halfway between two keys.                                               *)
(***************************************************************************)
\* Lines 141-144: the time up to this event.
time_at_event(event, ticks_per_beat, current_time_ms, current_tempo, last_time_ticks) ==
    IF event.time_ticks > last_time_ticks
    THEN current_time_ms
         + seconds_times_1000(tick2second(event.time_ticks - last_time_ticks,
                                          ticks_per_beat, current_tempo))
    ELSE current_time_ms

RECURSIVE tempo_loop(_, _, _, _, _, _, _, _)
\* The loop over all_tempo_events from the n-th event on (lines 138-160):
\* what it leaves in time_changes and current_tempo, or raised (tempo2bpm of
\* a tempo of 0).  current_time_double is the double current_time_ms is in
\* the code.
tempo_loop(all_tempo_events, ticks_per_beat, n, current_time_ms, current_time_double, current_tempo, last_time_ticks, time_changes) ==
    IF n > Len(all_tempo_events)
    THEN [raised |-> FALSE, current_tempo |-> current_tempo, time_changes |-> time_changes]
    ELSE IF current_tempo = all_tempo_events[n].tempo
    THEN tempo_loop(all_tempo_events, ticks_per_beat, n + 1,
                    time_at_event(all_tempo_events[n], ticks_per_beat, current_time_ms,
                                  current_tempo, last_time_ticks),
                    time_at_event_double(all_tempo_events[n], ticks_per_beat,
                                         current_time_double, FlOfInt(current_tempo),
                                         last_time_ticks),
                    current_tempo, all_tempo_events[n].time_ticks, time_changes)
    ELSE IF all_tempo_events[n].tempo = 0
    THEN [raised |-> TRUE, current_tempo |-> 0, time_changes |-> <<>>]
    ELSE tempo_loop(all_tempo_events, ticks_per_beat, n + 1,
                    time_at_event(all_tempo_events[n], ticks_per_beat, current_time_ms,
                                  current_tempo, last_time_ticks),
                    time_at_event_double(all_tempo_events[n], ticks_per_beat,
                                         current_time_double, FlOfInt(current_tempo),
                                         last_time_ticks),
                    all_tempo_events[n].tempo, all_tempo_events[n].time_ticks,
                    put(time_changes,
                        round_ms(time_at_event(all_tempo_events[n], ticks_per_beat,
                                               current_time_ms, current_tempo, last_time_ticks),
                                 ticks_per_beat,
                                 time_at_event_double(all_tempo_events[n], ticks_per_beat,
                                                      current_time_double,
                                                      FlOfInt(current_tempo),
                                                      last_time_ticks)),
                        "tempo",
                        [time_ms |-> time_at_event(all_tempo_events[n], ticks_per_beat,
                                                   current_time_ms, current_tempo,
                                                   last_time_ticks),
                         bpm |-> tempo2bpm(all_tempo_events[n].tempo),
                         tempo |-> all_tempo_events[n].tempo]))

\* Lines 128-136: the initial tempo, added when no tempo event is at tick 0.
initial_changes(all_tempo_events, current_tempo) ==
    IF all_tempo_events = <<>> \/ all_tempo_events[1].time_ticks > 0
    THEN 0 :> [tempo |-> [time_ms |-> 0, bpm |-> tempo2bpm(current_tempo),
                          tempo |-> current_tempo]]
    ELSE <<>>

RECURSIVE time_signature_loop(_, _, _, _, _, _)
\* The loop over time_sig_changes from the n-th on (lines 163-170).  The
\* double of a change's time_ms is the one extract_time_signature_changes
\* computed from tempo_events and initial_tempo (lines 96-106).
time_signature_loop(time_sig_changes, ticks_per_beat, tempo_events, initial_tempo, n, time_changes) ==
    IF n > Len(time_sig_changes) THEN time_changes
    ELSE time_signature_loop(time_sig_changes, ticks_per_beat, tempo_events, initial_tempo,
             n + 1,
             put(time_changes,
                 round_ms(time_sig_changes[n].time_ms, ticks_per_beat,
                          FlMul(calculate_time_from_ticks_double(
                                    time_sig_changes[n].time_ticks, ticks_per_beat,
                                    tempo_events, initial_tempo),
                                FlOfInt(1000))),
                 "time_signature",
                 [numerator |-> time_sig_changes[n].numerator,
                  denominator |-> time_sig_changes[n].denominator]))

\* Lines 162-178 after the tempo loop: the time signatures are placed with
\* int(current_tempo), the tempo the loop ended with, as the initial tempo.
\* An exception of the tempo loop is caught (lines 174-177): [] is returned.
changes_with_time_signatures(midi_file, all_tempo_events, tempos) ==
    IF tempos.raised
    THEN [raised |-> TRUE, time_changes |-> <<>>]
    ELSE [raised |-> FALSE,
          time_changes |->
              time_signature_loop(
                  extract_time_signature_changes(midi_file, all_tempo_events,
                                                 tempos.current_tempo),
                  midi_file.ticks_per_beat, all_tempo_events, tempos.current_tempo, 1,
                  tempos.time_changes)]

changes_of_events(midi_file, all_tempo_events, current_tempo) ==
    changes_with_time_signatures(midi_file, all_tempo_events,
        tempo_loop(all_tempo_events, midi_file.ticks_per_beat, 1, 0, FlZero, current_tempo, 0,
                   initial_changes(all_tempo_events, current_tempo)))

(***************************************************************************)
(* Where whole numbers give what the doubles give, the model computes in   *)
(* whole numbers: when the base tempo is a whole number.  The double of a  *)
(* time is off by a few units in its 16th digit, a time that is not        *)
(* halfway between two keys is off it by 1 / (2 * ticks_per_beat)          *)
(* microseconds or more, and a time that is halfway is rounded as its      *)
(* double (round_ms).                                                      *)
(***************************************************************************)
whole_numbers_apply(bpm) ==
    \/ bpm % 100 = 0 /\ 60000000 % (bpm \div 100) = 0
    \/ FlIsWhole(base_tempo_of(bpm))

\* The call's outcome: the dict it returns, or the [] it returns after an
\* exception (raised).  A bpm of 0 raises at line 124.
extract_tempo_and_time_signature_changes(midi_file, bpm) ==
    IF bpm = 0
    THEN [raised |-> TRUE, time_changes |-> <<>>]
    ELSE IF whole_numbers_apply(bpm)
    THEN changes_of_events(midi_file, extract_tempo_changes(midi_file), bpm2tempo(bpm))
    ELSE changes_of_events_double(midi_file, extract_tempo_changes(midi_file),
                                  base_tempo_of(bpm))

\* C3, in doubles: the double the code computes for the sum of the spans,
\* taken to milliseconds and rounded to 3 decimals as the callers round it,
\* is the sum rounded to a whole microsecond, for a sum that is not halfway
\* between two whole microseconds.
C3_DoubleRoundsAsTheSum ==
    (tc_result # None /\ ~is_tie(SpansSum, tc_args.ticks_per_beat)) =>
        FlRoundDecimal(FlMul(calculate_time_from_ticks_double(
                                 tc_args.target_ticks, tc_args.ticks_per_beat,
                                 tc_args.tempo_events, tc_args.initial_tempo),
                             FlOfInt(1000)), 1000)
            = RoundDiv(SpansSum, tc_args.ticks_per_beat)

(***************************************************************************)
(* util.py: beats_per_measure_from_time_signature;                         *)
(* beatmap.py: create_tempo_segment_with_audio                             *)
(***************************************************************************)
\* int(numerator / (denominator / 4)): the quotient 4 * numerator /
\* denominator truncated.
beats_per_measure_from_time_signature(time_signature) ==
    (4 * time_signature.numerator) \div time_signature.denominator

\* The function with the audio result never looked at (lines 107-110 left
\* out).
create_tempo_segment_with_audio_unchecked(segment, audio_ok, save_ok) ==
    LET beats_per_measure == beats_per_measure_from_time_signature(segment.time_signature) IN
    IF beats_per_measure = 0
    THEN [success |-> FALSE, saved |-> FALSE, error |-> "ZeroDivisionError",
          beats_per_measure |-> beats_per_measure]
    ELSE IF ~save_ok
    THEN [success |-> FALSE, saved |-> FALSE, error |-> "OSError",
          beats_per_measure |-> beats_per_measure]
    ELSE [success |-> TRUE, saved |-> TRUE, error |-> "",
          beats_per_measure |-> beats_per_measure]

\* create_tempo_segment_with_audio (lines 24-116): what it returns, whether
\* save_as wrote output_path, and the exception its except clause caught.
\* audio_ok is what segment_beatmap_audio returns, save_ok whether save_as
\* succeeds.  seconds_per_measure is (60 / bpm) * beats_per_measure, so
\* 2 % seconds_per_measure (line 52) raises ZeroDivisionError when
\* beats_per_measure is 0.
create_tempo_segment_with_audio(segment, audio_ok, save_ok) ==
    LET beats_per_measure == beats_per_measure_from_time_signature(segment.time_signature) IN
    IF beats_per_measure = 0
    THEN [success |-> FALSE, saved |-> FALSE, error |-> "ZeroDivisionError",
          beats_per_measure |-> beats_per_measure]
    ELSE IF ~audio_ok
    THEN [success |-> FALSE, saved |-> FALSE, error |-> "RuntimeError",
          beats_per_measure |-> beats_per_measure]
    ELSE IF ~save_ok
    THEN [success |-> FALSE, saved |-> FALSE, error |-> "OSError",
          beats_per_measure |-> beats_per_measure]
    ELSE [success |-> TRUE, saved |-> TRUE, error |-> "",
          beats_per_measure |-> beats_per_measure]

(***************************************************************************)
(* split.py: main                                                          *)
(***************************************************************************)
\* The messages a track is drawn from.
MessageDeltas == {0, 1}
MessageTempos == {0, 400000, 500000}
MessageTimeSignatures ==
    {[numerator |-> 4, denominator |-> 4], [numerator |-> 3, denominator |-> 4],
     [numerator |-> 6, denominator |-> 8], [numerator |-> 3, denominator |-> 8],
     [numerator |-> 1, denominator |-> 8]}
MessagesOf(tempos) ==
    {[type |-> "set_tempo", time |-> d, tempo |-> t] : d \in MessageDeltas, t \in tempos}
    \cup {[type |-> "time_signature", time |-> d, numerator |-> ts.numerator,
           denominator |-> ts.denominator] : d \in MessageDeltas, ts \in MessageTimeSignatures}
    \cup {[type |-> "note_on", time |-> d] : d \in MessageDeltas}

Messages == MessagesOf(MessageTempos)

\* One track, or two tracks, of max_messages messages in all.
TrackLists(messages, max_messages) ==
    {<<t>> : t \in SeqUpTo(messages, max_messages)}
    \cup UNION {{<<a, b>> : a \in [1..k -> messages], b \in SeqUpTo(messages, max_messages - k)} :
                   k \in 0..max_messages}

MidiFiles(messages, max_messages) ==
    [ticks_per_beat : TicksPerBeatValues, tracks : TrackLists(messages, max_messages)]

\* The base beatmap: whether SynthFile.from_synth loads it, its bpm (in
\* hundredths) and its audio's duration (in microseconds).
BeatmapsOf(bpms) ==
    {[loads |-> FALSE]}
    \cup [loads : {TRUE}, bpm : bpms, audio_duration_ms : {6000000}]
Beatmaps == BeatmapsOf({12000, 15000})

SplitIdle ==
    /\ sp_input = [midi_file |-> [ticks_per_beat |-> 480, tracks |-> <<>>],
                   beatmap |-> [loads |-> TRUE, bpm |-> 12000, audio_duration_ms |-> 0]]
    /\ sp_pc = "idle"
    /\ sp_midi_read = FALSE
    /\ sp_changes = None
    /\ sp_segments = <<>>
    /\ sp_attempts = <<>>
    /\ sp_successful = 0
    /\ sp_failed = 0
    /\ sp_saved = {}
    /\ sp_return = None
    /\ sp_error = ""

\* main after validate_inputs has accepted its arguments (line 44).
SplitCallOf(midi_files, beatmaps) ==
    /\ sp_input \in [midi_file : midi_files, beatmap : beatmaps]
    /\ sp_pc = "load"
    /\ sp_midi_read = FALSE
    /\ sp_changes = None
    /\ sp_segments = <<>>
    /\ sp_attempts = <<>>
    /\ sp_successful = 0
    /\ sp_failed = 0
    /\ sp_saved = {}
    /\ sp_return = None
    /\ sp_error = ""

SplitCall == SplitCallOf(MidiFiles(Messages, MaxMessages), Beatmaps)

\* The same with the inputs whose times the doubles decide: a tempo that
\* puts a tick halfway between two keys at 2 ticks per beat, and a base BPM
\* whose tempo 60000000 / bpm is no whole number.
ExtractTempos == MessageTempos \cup {400001}
ExtractBPMs == {12000, 15000, 17000}
ExtractCall ==
    SplitCallOf(MidiFiles(MessagesOf(ExtractTempos), MaxMessages), BeatmapsOf(ExtractBPMs))

\* Lines 50-52: load_beatmap_from_synth returns the beatmap, or False when
\* loading raised; `beatmap is None` is false for both.
LoadBeatmap ==
    /\ sp_pc = "load"
    /\ sp_pc' = "extract"
    /\ UNCHANGED <<sp_input, sp_midi_read, sp_changes, sp_segments, sp_attempts,
                   sp_successful, sp_failed, sp_saved, sp_return, sp_error, sp_others>>

\* Lines 56-63: the MIDI file is read and the changes are extracted with
\* beatmap.bpm, which raises AttributeError when beatmap is False; an empty
\* result ends the run with 1.
ExtractChanges ==
    /\ sp_pc = "extract"
    /\ sp_midi_read' = TRUE
    /\ IF ~sp_input.beatmap.loads
       THEN /\ sp_pc' = "raised"
            /\ sp_error' = "AttributeError"
            /\ UNCHANGED <<sp_changes, sp_return>>
       ELSE /\ sp_changes' = Some(extract_tempo_and_time_signature_changes(
                                     sp_input.midi_file, sp_input.beatmap.bpm))
            /\ IF DOMAIN sp_changes'[1].time_changes = {}
               THEN sp_pc' = "returned" /\ sp_return' = Some(1)
               ELSE sp_pc' = "segments" /\ UNCHANGED sp_return
            /\ UNCHANGED sp_error
    /\ UNCHANGED <<sp_input, sp_segments, sp_attempts, sp_successful, sp_failed, sp_saved,
                   sp_others>>

\* Lines 67-82: create_tempo_segments, whose exception ends main; an empty
\* list ends the run with 1.
CreateSegments ==
    /\ sp_pc = "segments"
    /\ IF create_tempo_segments(sp_changes[1].time_changes,
                                sp_input.beatmap.audio_duration_ms, sp_input.beatmap.bpm).raised
       THEN /\ sp_pc' = "raised"
            /\ sp_error' = "TypeError"
            /\ UNCHANGED <<sp_segments, sp_return>>
       ELSE /\ sp_segments' = create_tempo_segments(sp_changes[1].time_changes,
                                  sp_input.beatmap.audio_duration_ms,
                                  sp_input.beatmap.bpm).segments
            /\ IF sp_segments' = <<>>
               THEN sp_pc' = "returned" /\ sp_return' = Some(1)
               ELSE sp_pc' = "loop" /\ UNCHANGED sp_return
            /\ UNCHANGED sp_error
    /\ UNCHANGED <<sp_input, sp_midi_read, sp_changes, sp_attempts, sp_successful, sp_failed,
                   sp_saved, sp_others>>

\* What one pass of the loop (lines 100-128) does with the outcome of
\* create_tempo_segment_with_audio for the segment of index i.
count_attempt(i, audio_ok, outcome) ==
    /\ sp_attempts' = Append(sp_attempts,
                             [i |-> i, segment |-> sp_segments[i + 1], audio_ok |-> audio_ok,
                              success |-> outcome.success, error |-> outcome.error,
                              beats_per_measure |-> outcome.beats_per_measure])
    /\ sp_saved' = IF outcome.saved THEN sp_saved \cup {i} ELSE sp_saved
    /\ IF outcome.success
       THEN sp_successful' = sp_successful + 1 /\ UNCHANGED sp_failed
       ELSE sp_failed' = sp_failed + 1 /\ UNCHANGED sp_successful

\* One pass of the loop (lines 100-128).  The output path of a pass carries
\* its sequence number i + 1, so a saved file is known by i.
MaterializeSegment ==
    /\ sp_pc = "loop"
    /\ Len(sp_attempts) < Len(sp_segments)
    /\ \E audio_ok \in BOOLEAN, save_ok \in BOOLEAN :
          count_attempt(Len(sp_attempts), audio_ok,
                        create_tempo_segment_with_audio(sp_segments[Len(sp_attempts) + 1],
                                                        audio_ok, save_ok))
    /\ UNCHANGED <<sp_input, sp_pc, sp_midi_read, sp_changes, sp_segments, sp_return, sp_error,
                   sp_others>>

\* Lines 148-155 with the result always 1.
return_value_one(failed_variants) == 1

\* Lines 148-155.
return_value(failed_variants) == IF failed_variants > 0 THEN 1 ELSE 0

\* The loop has ended: the summary and the return (lines 129-155).
ReturnFromLoop ==
    /\ sp_pc = "loop"
    /\ Len(sp_attempts) = Len(sp_segments)
    /\ sp_pc' = "returned"
    /\ sp_return' = Some(return_value(sp_failed))
    /\ UNCHANGED <<sp_input, sp_midi_read, sp_changes, sp_segments, sp_attempts, sp_successful,
                   sp_failed, sp_saved, sp_error, sp_others>>

(***************************************************************************)
(* C2, C8, C9, C10                                                         *)
(***************************************************************************)
\* The extraction has run and returned a dict (no exception was caught).
ChangesExtracted == sp_changes # None /\ ~sp_changes[1].raised

\* The set_tempo messages of the run's MIDI file that sit at tick 0.
TempoMessagesAtTickZero ==
    {n \in 1..Len(extract_tempo_changes(sp_input.midi_file)) :
        extract_tempo_changes(sp_input.midi_file)[n].time_ticks = 0}

\* C2: for every MIDI input and every base_bpm the ChangeMap returned by
\* extract_tempo_and_time_signature_changes contains the key 0.0, and that
\* key has a defined BPM (its own tempo record) and a defined time signature.
C2_KeyZeroDefined ==
    ChangesExtracted =>
        /\ 0 \in DOMAIN sp_changes[1].time_changes
        /\ "tempo" \in DOMAIN sp_changes[1].time_changes[0]
        /\ "time_signature" \in DOMAIN sp_changes[1].time_changes[0]

\* What the code does keep of C2: with no tempo message at tick 0, key 0.0 is
\* there and carries base_bpm and its tempo.
C2_InitialTempoSynthesized ==
    (ChangesExtracted /\ TempoMessagesAtTickZero = {}) =>
        /\ 0 \in DOMAIN sp_changes[1].time_changes
        /\ "tempo" \in DOMAIN sp_changes[1].time_changes[0]
        /\ sp_changes[1].time_changes[0].tempo.bpm = sp_input.beatmap.bpm

\* The loop over the segments has ended and main has returned.
LoopEnded == sp_pc = "returned" /\ sp_segments # <<>>

\* C8: every segment is attempted exactly once, in segment-list order,
\* whatever the earlier outcomes: the n-th attempt is for the n-th segment; an
\* attempt whose audio slicing failed is a failure; a failed attempt is
\* counted as failed and has no saved file, a successful one is counted as
\* successful and has one; while segments are left the loop goes on, main
\* returns only after all N, and then successful_variants + failed_variants
\* = N.
C8_EverySegmentAttempted ==
    /\ Len(sp_attempts) <= Len(sp_segments)
    /\ \A n \in 1..Len(sp_attempts) :
          /\ sp_attempts[n].i = n - 1
          /\ sp_attempts[n].segment = sp_segments[n]
          /\ ~sp_attempts[n].audio_ok => ~sp_attempts[n].success
          /\ sp_attempts[n].success <=> (n - 1) \in sp_saved
    /\ sp_failed = Cardinality({n \in 1..Len(sp_attempts) : ~sp_attempts[n].success})
    /\ sp_successful = Cardinality({n \in 1..Len(sp_attempts) : sp_attempts[n].success})
    /\ sp_attempts # <<>> => sp_pc \in {"loop", "returned"}
    /\ (sp_pc = "loop" /\ Len(sp_attempts) < Len(sp_segments)) => ENABLED MaterializeSegment
    /\ LoopEnded =>
          /\ Len(sp_attempts) = Len(sp_segments)
          /\ sp_successful + sp_failed = Len(sp_segments)

\* A run over two segments has ended: the first failed on its audio and has
\* no file, the second was still processed and saved.
C8_Witness ==
    /\ LoopEnded
    /\ Len(sp_segments) = 2
    /\ ~sp_attempts[1].audio_ok
    /\ sp_attempts[1].error = "RuntimeError"
    /\ sp_attempts[2].success
    /\ sp_saved = {1}
    /\ sp_successful = 1
    /\ sp_failed = 1

\* C9 as stated: a return value of 1 implies failed_variants >= 1, and a run
\* in which every segment succeeded returns 0.
C9_NonZeroOnlyOnFailure ==
    /\ sp_return = Some(1) => sp_failed >= 1
    /\ (LoopEnded /\ \A n \in 1..Len(sp_attempts) : sp_attempts[n].success) =>
          sp_return = Some(0)

\* C9 (amended): a return value of 1 implies that at least one segment failed
\* or that the extraction gave an empty timeline, the run then ending before
\* any segment is attempted; a run in which every segment succeeded returns 0.
C9_ReturnValue ==
    /\ sp_return = Some(1) =>
          \/ sp_failed >= 1
          \/ /\ sp_changes # None
             /\ DOMAIN sp_changes[1].time_changes = {}
             /\ sp_segments = <<>>
             /\ sp_attempts = <<>>
    /\ (LoopEnded /\ \A n \in 1..Len(sp_attempts) : sp_attempts[n].success) =>
          sp_return = Some(0)

\* The run returned 1 with no failed segment: the extraction caught an
\* exception (a set_tempo message with tempo 0) and returned [].
C9_Witness ==
    /\ sp_return = Some(1)
    /\ sp_failed = 0
    /\ sp_changes # None
    /\ sp_changes[1].raised
    /\ sp_attempts = <<>>

\* The quotient numerator / (denominator / 4) is a whole number.
WholeQuotient(time_signature) == (4 * time_signature.numerator) % time_signature.denominator = 0

\* C10: an attempt whose time signature has a whole quotient numerator /
\* (denominator / 4) works with that quotient as beats_per_measure, and an
\* attempt whose quotient is fractional fails with the unsupported-meter
\* error.
C10_UnsupportedMeter ==
    \A n \in 1..Len(sp_attempts) :
        IF WholeQuotient(sp_attempts[n].segment.time_signature)
        THEN sp_attempts[n].beats_per_measure * sp_attempts[n].segment.time_signature.denominator
                = 4 * sp_attempts[n].segment.time_signature.numerator
        ELSE /\ ~sp_attempts[n].success
             /\ sp_attempts[n].error = "UnsupportedMeterError"

\* What the code does keep of C10: a whole quotient is beats_per_measure.
C10_WholeQuotients ==
    \A n \in 1..Len(sp_attempts) :
        WholeQuotient(sp_attempts[n].segment.time_signature) =>
            sp_attempts[n].beats_per_measure * sp_attempts[n].segment.time_signature.denominator
                = 4 * sp_attempts[n].segment.time_signature.numerator

\* A 3/8 segment was materialized with beats_per_measure 1 and saved.
C10_TruncatedMeterSaved ==
    \E n \in 1..Len(sp_attempts) :
        /\ sp_attempts[n].segment.time_signature = [numerator |-> 3, denominator |-> 8]
        /\ sp_attempts[n].beats_per_measure = 1
        /\ sp_attempts[n].success
        /\ (n - 1) \in sp_saved

(***************************************************************************)
(* beatmap.py: add_timing_notes                                            *)
(***************************************************************************)
\* Beats are held in quarters of a beat, so that note_value = denominator / 4
\* is a whole number for denominators up to 16 (note_value 1.0 is 4, and 4
\* beats per measure are 16).  A
\* difficulty is its four note containers, each a dict from the beat of a
\* note to its coordinates.
EmptyContainer ==
    [right |-> <<>>, left |-> <<>>, single |-> <<>>, both |-> <<>>]

\* np.arange(start_beat, end_beat + note_value, note_value) cut at end_beat
\* (lines 163-165), as the sequence of its values.
beat_times_of(start_beat, end_beat, note_value) ==
    IF end_beat < start_beat THEN <<>>
    ELSE [i \in 1..((end_beat - start_beat) \div note_value + 1) |->
             start_beat + (i - 1) * note_value]

\* Lines 205-208 and 220-221: the direction and the hand of a marker.
\* rotations_per_measure is 0.5, so beats_per_rotation and
\* hand_switch_interval are both 2 * beats_per_measure.
rotation_number(beat_time, start_beat, beats_per_measure) ==
    (beat_time - start_beat) \div (2 * beats_per_measure)

is_right_hand(beat_time, start_beat, beats_per_measure) ==
    ((beat_time - start_beat) \div (2 * beats_per_measure)) % 2 = 0

\* The coordinates of the i-th marker (lines 190-224): the spiral's i-th
\* point, mirrored when the direction is -1.
note_coords(i, beat_time, start_beat, beats_per_measure) ==
    [spiral |-> i,
     mirrored |-> rotation_number(beat_time, start_beat, beats_per_measure) % 2 # 0,
     beat |-> beat_time]

\* d[key] = value on a dict.
assign(dict, key, value) ==
    [k \in DOMAIN dict \cup {key} |-> IF k = key THEN value ELSE dict[k]]

\* Lines 227-230: data_container.right[beat_time] = note_coords, or .left.
place_note(data_container, hand, beat_time, coords) ==
    [data_container EXCEPT ![hand] = assign(data_container[hand], beat_time, coords)]

RECURSIVE notes_loop(_, _, _, _, _)
\* The loop over beat_times from the i-th on (lines 202-230).
notes_loop(data_container, beat_times, i, start_beat, beats_per_measure) ==
    IF i > Len(beat_times) THEN data_container
    ELSE notes_loop(
             place_note(data_container,
                        IF is_right_hand(beat_times[i], start_beat, beats_per_measure)
                        THEN "right" ELSE "left",
                        beat_times[i],
                        note_coords(i, beat_times[i], start_beat, beats_per_measure)),
             beat_times, i + 1, start_beat, beats_per_measure)

\* Lines 148-149: the difficulty is created when the beatmap has none.
with_difficulty(difficulties, difficulty) ==
    IF difficulty \in DOMAIN difficulties THEN difficulties
    ELSE assign(difficulties, difficulty, EmptyContainer)

\* Lines 154-157: end_beat when none is given.
end_beat_of(end_beat, audio_beats, start_beat) ==
    IF end_beat # None THEN end_beat[1]
    ELSE IF start_beat > 0 THEN audio_beats + start_beat ELSE audio_beats

\* Lines 159-230 for the beat times found.  len(beat_times) /
\* beats_per_measure (line 183) raises ZeroDivisionError for
\* beats_per_measure 0.
add_notes_at(difficulties, difficulty, beat_times, start_beat, beats_per_measure) ==
    IF beat_times = <<>>
    THEN [raised |-> FALSE, difficulties |-> difficulties]
    ELSE IF beats_per_measure = 0
    THEN [raised |-> TRUE, difficulties |-> difficulties]
    ELSE [raised |-> FALSE,
          difficulties |->
              assign(difficulties, difficulty,
                     notes_loop(difficulties[difficulty], beat_times, 1, start_beat,
                                beats_per_measure))]

\* The call's outcome: the beatmap's difficulties after it, and whether it
\* raised.
add_timing_notes(difficulties, difficulty, start_beat, end_beat, audio_beats, beats_per_measure, note_value) ==
    add_notes_at(with_difficulty(difficulties, difficulty), difficulty,
                 beat_times_of(start_beat, end_beat_of(end_beat, audio_beats, start_beat),
                               note_value),
                 start_beat, beats_per_measure)

\* The notes a container is drawn with: none, or one note.
NoteBeats == {0, 4, 6}
NoteDicts == {<<>>} \cup {b :> [note |-> "placed", beat |-> b] : b \in NoteBeats}
DataContainers == [right : NoteDicts, left : NoteDicts, single : NoteDicts, both : NoteDicts]
DifficultyMaps ==
    {"Expert" :> c : c \in DataContainers} \cup {"Hard" :> c : c \in {EmptyContainer}}

MarkersIdle ==
    /\ tn_args = [difficulties |-> <<>>, start_beat |-> 0, end_beat |-> None,
                  audio_beats |-> 0, beats_per_measure |-> 4, note_value |-> 4]
    /\ tn_result = None

MarkersCall ==
    /\ tn_args \in [difficulties : DifficultyMaps, start_beat : {0, 8},
                    end_beat : {None, Some(2), Some(8), Some(24)}, audio_beats : {16},
                    beats_per_measure : {0, 4, 16}, note_value : {2, 4}]
    /\ tn_result = None

CallAddTimingNotes ==
    /\ tn_result = None
    /\ tn_result' = Some(add_timing_notes(tn_args.difficulties, "Expert", tn_args.start_beat,
                                          tn_args.end_beat, tn_args.audio_beats,
                                          tn_args.beats_per_measure, tn_args.note_value))
    /\ UNCHANGED <<tn_args, tn_others>>

(***************************************************************************)
(* C11                                                                     *)
(***************************************************************************)
Containers == {"right", "left", "single", "both"}

\* The notes of the target difficulty before the call.
NotesBefore(c) ==
    IF "Expert" \in DOMAIN tn_args.difficulties THEN tn_args.difficulties["Expert"][c] ELSE <<>>

NotesAfter(c) == tn_result[1].difficulties["Expert"][c]

\* C11: every note of the target difficulty's left, right, single and both
\* containers before add_timing_notes is still there after it, at the same
\* beat and with the same coordinates.
C11_NotesKept ==
    tn_result # None =>
        \A c \in Containers : \A b \in DOMAIN NotesBefore(c) :
            /\ b \in DOMAIN NotesAfter(c)
            /\ NotesAfter(c)[b] = NotesBefore(c)[b]

\* What the code does keep of C11: no beat loses its note, the single and
\* both containers are as they were, and a note of the left or right
\* container keeps its coordinates unless a marker was written at its beat.
C11_NotesKeptOffMarkers ==
    tn_result # None =>
        /\ \A c \in Containers : DOMAIN NotesBefore(c) \subseteq DOMAIN NotesAfter(c)
        /\ NotesAfter("single") = NotesBefore("single")
        /\ NotesAfter("both") = NotesBefore("both")
        /\ \A c \in {"right", "left"} : \A b \in DOMAIN NotesBefore(c) :
              \/ NotesAfter(c)[b] = NotesBefore(c)[b]
              \/ "spiral" \in DOMAIN NotesAfter(c)[b]

\* A right-hand note at beat 0 has been replaced by the first marker.
C11_NoteReplaced ==
    /\ tn_result # None
    /\ 0 \in DOMAIN NotesBefore("right")
    /\ tn_args.start_beat = 0
    /\ "spiral" \in DOMAIN NotesAfter("right")[0]

(***************************************************************************)
(* C12, C13                                                                *)
(***************************************************************************)
\* Whether the base tempo 60000000 / bpm is a whole number of microseconds.
BaseTempoIsWhole(bpm) == FlIsWhole(base_tempo_of(bpm))

\* Whether two tempos of a ChangeMap are equal: each is an integer, or the
\* double of a base tempo that is no whole number.
SameTempo(a, b) == ToString(a) = ToString(b)

\* The keys of time_changes before k that have the field.
KeysBefore(time_changes, k, field) ==
    {j \in DOMAIN time_changes : j < k /\ field \in DOMAIN time_changes[j]}

\* The tempo in effect immediately before key k: that of the latest earlier
\* key with a tempo, the base tempo when there is none.
TempoBeforeKey(time_changes, k, base_tempo) ==
    IF KeysBefore(time_changes, k, "tempo") = {} THEN base_tempo
    ELSE time_changes[MaxOf(KeysBefore(time_changes, k, "tempo"))].tempo.tempo

\* The time signature in effect immediately before key k, None when no
\* earlier key has one.
TimeSignatureBeforeKey(time_changes, k) ==
    IF KeysBefore(time_changes, k, "time_signature") = {} THEN None
    ELSE Some(time_changes[MaxOf(KeysBefore(time_changes, k, "time_signature"))].time_signature)

\* Key k records a tempo or a time signature that differs from the one in
\* effect immediately before it.
RecordsChange(time_changes, k, base_tempo) ==
    \/ /\ "tempo" \in DOMAIN time_changes[k]
       /\ ~SameTempo(time_changes[k].tempo.tempo, TempoBeforeKey(time_changes, k, base_tempo))
    \/ /\ "time_signature" \in DOMAIN time_changes[k]
       /\ Some(time_changes[k].time_signature) # TimeSignatureBeforeKey(time_changes, k)

\* C12: every key of the ChangeMap other than 0.0 records a tempo or a time
\* signature that differs from the value in effect immediately before it.
C12_NoSpuriousBoundary ==
    ChangesExtracted =>
        \A k \in DOMAIN sp_changes[1].time_changes \ {0} :
            RecordsChange(sp_changes[1].time_changes, k, bpm2tempo(sp_input.beatmap.bpm))

\* What the code does keep of C12: set_tempo messages that all repeat the
\* base tempo, with no time-signature message, create no key after 0.0.
C12_RepeatedBaseTempoSkipped ==
    (/\ ChangesExtracted
     /\ messages_of_type(sp_input.midi_file, "time_signature") = <<>>
     /\ \A n \in 1..Len(extract_tempo_changes(sp_input.midi_file)) :
           SameTempo(extract_tempo_changes(sp_input.midi_file)[n].tempo,
                     bpm2tempo(sp_input.beatmap.bpm)))
    => DOMAIN sp_changes[1].time_changes \subseteq {0}

\* Two tempo messages tied at tick 1, the second back at the base tempo: the
\* key of tick 1 records the base tempo again.
C12_TiedTempoBoundary ==
    /\ ChangesExtracted
    /\ Len(extract_tempo_changes(sp_input.midi_file)) = 2
    /\ extract_tempo_changes(sp_input.midi_file)[1].time_ticks = 1
    /\ extract_tempo_changes(sp_input.midi_file)[2].time_ticks = 1
    /\ \E k \in DOMAIN sp_changes[1].time_changes \ {0} :
          /\ "tempo" \in DOMAIN sp_changes[1].time_changes[k]
          /\ SameTempo(sp_changes[1].time_changes[k].tempo.tempo,
                       bpm2tempo(sp_input.beatmap.bpm))
          /\ ~RecordsChange(sp_changes[1].time_changes, k, bpm2tempo(sp_input.beatmap.bpm))

\* A time-signature message that repeats the one at tick 0 has a key of its
\* own.
C12_RepeatedTimeSignatureBoundary ==
    /\ ChangesExtracted
    /\ \E k \in DOMAIN sp_changes[1].time_changes \ {0} :
          /\ DOMAIN sp_changes[1].time_changes[k] = {"time_signature"}
          /\ Some(sp_changes[1].time_changes[k].time_signature)
                = TimeSignatureBeforeKey(sp_changes[1].time_changes, k)

\* The time in seconds of absolute tick t on the timeline of the tempo
\* replay, in doubles: the base tempo 60000000 / bpm before the first tempo
\* event, then each event's tempo.
ReplayedSeconds(midi_file, bpm, t) ==
    IF t = 0 THEN FlZero
    ELSE IF extract_tempo_changes(midi_file) = <<>>
            \/ extract_tempo_changes(midi_file)[1].time_ticks >= t
    THEN tick2second_double(t, midi_file.ticks_per_beat, base_tempo_of(bpm))
    ELSE ticks_loop_double(t, midi_file.ticks_per_beat, extract_tempo_changes(midi_file), 2,
             IF extract_tempo_changes(midi_file)[1].time_ticks > 0
             THEN tick2second_double(extract_tempo_changes(midi_file)[1].time_ticks,
                                     midi_file.ticks_per_beat, base_tempo_of(bpm))
             ELSE FlZero,
             extract_tempo_changes(midi_file)[1].tempo,
             extract_tempo_changes(midi_file)[1].time_ticks)

\* The ChangeMap key of absolute tick t on that timeline: in whole numbers
\* where they give what the doubles give.
KeyOfTick(midi_file, bpm, t) ==
    IF BaseTempoIsWhole(bpm)
    THEN round_ms(ElapsedOver(extract_tempo_changes(midi_file), bpm2tempo(bpm), t),
                  midi_file.ticks_per_beat,
                  FlMul(ReplayedSeconds(midi_file, bpm, t), FlOfInt(1000)))
    ELSE FlRoundDecimal(FlMul(ReplayedSeconds(midi_file, bpm, t), FlOfInt(1000)), 1000)

\* The time-signature message m is in the ChangeMap entry of its tick.
PlacedAtItsTick(m) ==
    /\ KeyOfTick(sp_input.midi_file, sp_input.beatmap.bpm, m.time_ticks)
          \in DOMAIN sp_changes[1].time_changes
    /\ "time_signature" \in DOMAIN sp_changes[1].time_changes[
           KeyOfTick(sp_input.midi_file, sp_input.beatmap.bpm, m.time_ticks)]

\* C13: every time-signature message at absolute tick t is merged into the
\* ChangeMap at the millisecond position the tempo replay gives tick t, with
\* the base tempo before the first tempo event; so one at the tick of a
\* recorded tempo change is in that tempo change's entry.
C13_TimeSignatureOnTimeline ==
    ChangesExtracted =>
        \A n \in 1..Len(messages_of_type(sp_input.midi_file, "time_signature")) :
            PlacedAtItsTick(messages_of_type(sp_input.midi_file, "time_signature")[n])

\* The tempo the tempo loop ends with: that of the last tempo event, the
\* base tempo when there is none.
FinalTempo ==
    IF extract_tempo_changes(sp_input.midi_file) = <<>>
    THEN bpm2tempo(sp_input.beatmap.bpm)
    ELSE extract_tempo_changes(sp_input.midi_file)[
             Len(extract_tempo_changes(sp_input.midi_file))].tempo

\* What the code does keep of C13: the placement holds when the tempo loop
\* ends with the base tempo and the base tempo is a whole number of
\* microseconds, which int() leaves as it is.
C13_OnTimelineWhenTempoReturns ==
    (/\ ChangesExtracted
     /\ BaseTempoIsWhole(sp_input.beatmap.bpm)
     /\ FinalTempo = bpm2tempo(sp_input.beatmap.bpm)) =>
        \A n \in 1..Len(messages_of_type(sp_input.midi_file, "time_signature")) :
            PlacedAtItsTick(messages_of_type(sp_input.midi_file, "time_signature")[n])

\* A tempo change at tick 1 and a time-signature message at tick 1 are in two
\* entries of the ChangeMap.
C13_SplitEntries ==
    /\ ChangesExtracted
    /\ Len(extract_tempo_changes(sp_input.midi_file)) = 1
    /\ extract_tempo_changes(sp_input.midi_file)[1].time_ticks = 1
    /\ Len(messages_of_type(sp_input.midi_file, "time_signature")) = 1
    /\ messages_of_type(sp_input.midi_file, "time_signature")[1].time_ticks = 1
    /\ \E j, k \in DOMAIN sp_changes[1].time_changes :
          /\ j < k
          /\ DOMAIN sp_changes[1].time_changes[j] = {"time_signature"}
          /\ DOMAIN sp_changes[1].time_changes[k] = {"tempo"}

(***************************************************************************)
(* C14                                                                     *)
(***************************************************************************)
\* The keys at or before k that have the field.
KeysUpTo(time_changes, k, field) ==
    {j \in DOMAIN time_changes : j <= k /\ field \in DOMAIN time_changes[j]}

\* The BPM of the latest key at or before k that has a tempo field,
\* initial_bpm if there is none.
CarriedBPM(time_changes, k, initial_bpm) ==
    IF KeysUpTo(time_changes, k, "tempo") = {} THEN initial_bpm
    ELSE time_changes[MaxOf(KeysUpTo(time_changes, k, "tempo"))].tempo.bpm

\* The segments carry the BPM and the time signature forward: one segment
\* per key, each with the BPM and the time signature of the latest key at or
\* before its own that has the field.
CarriedForward(time_changes, initial_bpm, segments) ==
    /\ Len(segments) = Cardinality(DOMAIN time_changes)
    /\ \A n \in 1..Len(segments) :
          /\ segments[n].start_ms \in DOMAIN time_changes
          /\ segments[n].bpm = CarriedBPM(time_changes, segments[n].start_ms, initial_bpm)
          /\ KeysUpTo(time_changes, segments[n].start_ms, "time_signature") # {}
          /\ segments[n].time_signature =
                time_changes[MaxOf(KeysUpTo(time_changes, segments[n].start_ms,
                                            "time_signature"))].time_signature

\* C14: for every ChangeMap, create_tempo_segments returns a segment for
\* every key, also when the leading keys have no time_signature or no tempo
\* field, and every segment has the BPM of the latest key at or before it
\* with a tempo field (initial_bpm if none) and the time signature of the
\* latest key at or before it with a time_signature field, when there is
\* one.
C14_CarryForward ==
    sg_result # None =>
        /\ ~sg_result[1].raised
        /\ Len(sg_result[1].segments) = Cardinality(DOMAIN sg_args.tempo_and_time_changes)
        /\ \A n \in 1..Len(sg_result[1].segments) :
              /\ sg_result[1].segments[n].bpm =
                    CarriedBPM(sg_args.tempo_and_time_changes,
                               sg_result[1].segments[n].start_ms, sg_args.initial_bpm)
              /\ KeysUpTo(sg_args.tempo_and_time_changes,
                          sg_result[1].segments[n].start_ms, "time_signature") # {} =>
                    sg_result[1].segments[n].time_signature =
                        sg_args.tempo_and_time_changes[
                            MaxOf(KeysUpTo(sg_args.tempo_and_time_changes,
                                           sg_result[1].segments[n].start_ms,
                                           "time_signature"))].time_signature

\* What the code does keep of C14: the call raises exactly when the first
\* key has no time_signature field, and otherwise carries both fields
\* forward.
C14_CarryForwardFromFirstKey ==
    sg_result # None =>
        /\ sg_result[1].raised <=>
              "time_signature" \notin DOMAIN sg_args.tempo_and_time_changes[
                  MinOf(DOMAIN sg_args.tempo_and_time_changes)]
        /\ ~sg_result[1].raised =>
              CarriedForward(sg_args.tempo_and_time_changes, sg_args.initial_bpm,
                             sg_result[1].segments)

\* The call raised on a ChangeMap whose first key has a tempo only and whose
\* later keys have a time signature.
C14_RaisedOnLeadingKey ==
    /\ sg_result # None
    /\ sg_result[1].raised
    /\ DOMAIN sg_args.tempo_and_time_changes = ChangeKeys
    /\ DOMAIN sg_args.tempo_and_time_changes[0] = {"tempo"}
    /\ \A k \in ChangeKeys \ {0} :
          "time_signature" \in DOMAIN sg_args.tempo_and_time_changes[k]

(***************************************************************************)
(* beatmap.py: create_tempo_segment_with_audio, the layout it computes     *)
(* before the audio is checked and the file saved (lines 32-97).           *)
(*                                                                         *)
(* With bpm in hundredths, the exact value of seconds_per_measure is       *)
(* 6000 * beats_per_measure / bpm seconds.  The code computes it in IEEE   *)
(* doubles, (60 / bpm) * beats_per_measure, each operation rounded to the  *)
(* nearest double.  The rounding changes the comparison remainder == 0 of  *)
(* line 53, which an exact multiple meets only when the double is the      *)
(* exact value, and the floor of line 85 when the length is a whole number *)
(* of beats.  The model computes which way the double of line 49 is off    *)
(* (float_error_sign) and the floor of line 85 in doubles                  *)
(* (length_in_beats), and otherwise holds every number exactly; a time of  *)
(* the layout is held as the numerator of its value in milliseconds over   *)
(* the bpm in hundredths.                                                  *)
(***************************************************************************)
\* Whether the double seconds_per_measure = (60 / bpm) * beats_per_measure
\* (lines 36 and 49) is below (-1), equal to (0) or above (1) the exact
\* value 6000 * beats_per_measure / bpm, for a bpm in hundredths that is a
\* whole number of BPM.
float_error_sign(bpm, beats_per_measure) ==
    FlCompareRatio(FlMul(FlDiv(FlOfInt(60), BPMDouble(bpm)), FlOfInt(beats_per_measure)),
                   6000 * beats_per_measure, bpm)

\* Whether 2 seconds is an exact whole number of measures; bpm in hundredths.
\* It is only for a bpm that is a multiple of 30.
whole_measures_in_silence(bpm, beats_per_measure) ==
    (2 * bpm) % (6000 * beats_per_measure) = 0

\* silence_duration_seconds + time_to_next_1 (lines 51-56), in measures.
\* When 2 seconds is not a whole number of measures, the remainder is not 0
\* and the sum is the next whole measure.  When it is, the double
\* seconds_per_measure decides: equal to the exact value, the remainder is 0;
\* above it, the remainder is a hair less than a measure and time_to_next_1
\* a hair; below it, the remainder is a hair and time_to_next_1 a hair less
\* than a whole measure.
silence_measures(bpm, beats_per_measure) ==
    LET measures == (2 * bpm) \div (6000 * beats_per_measure)
    IN  IF ~whole_measures_in_silence(bpm, beats_per_measure) THEN measures + 1
        ELSE IF float_error_sign(bpm, beats_per_measure) < 0 THEN measures + 1
        ELSE measures

\* total_offset (lines 57-59): the numerator, over the bpm in hundredths, of
\* its value in milliseconds.
total_offset(segment, beats_per_measure) ==
    IF segment.start_ms = 0 THEN 0
    ELSE silence_measures(segment.bpm, beats_per_measure) * 6000000 * beats_per_measure

\* start_beat (lines 71-79): min_delay_beats is 2 * bpm / 60.
start_beat_of(segment, beats_per_measure) ==
    ((segment.bpm \div (3000 * beats_per_measure)) + 1) * beats_per_measure

\* synth_mapping_helper.utils.second_to_beat(seconds, bpm): seconds * bpm /
\* 60.
second_to_beat(seconds, bpm) == FlDiv(FlMul(seconds, bpm), FlOfInt(60))

\* second_to_beat(segment_length / 1000, bpm) for segment_length = end_time -
\* start_time (lines 69 and 85), end_time >= start_time.
beats_between(start_time, end_time, bpm) ==
    second_to_beat(FlDiv(FlSub(end_time, start_time), FlOfInt(1000)), bpm)

\* math.floor of the negative of x.
floor_of_negative(x) == IF FlIsWhole(x) THEN -FlFloor(x) ELSE -FlFloor(x) - 1

\* math.floor(second_to_beat(segment_length / 1000, bpm)) (line 85), the
\* segment's length in whole beats, computed in doubles as the code does;
\* start_ms and end_ms in microseconds.  A segment that ends before it
\* starts has a negative length, the negative of the same doubles.
length_in_beats(segment) ==
    IF segment.end_ms >= segment.start_ms
    THEN FlFloor(beats_between(MillisecondsDouble(segment.start_ms),
                               MillisecondsDouble(segment.end_ms),
                               BPMDouble(segment.bpm)))
    ELSE floor_of_negative(beats_between(MillisecondsDouble(segment.end_ms),
                                         MillisecondsDouble(segment.start_ms),
                                         BPMDouble(segment.bpm)))

\* total_beats (lines 83-91).
total_beats_of(segment, beats_per_measure) ==
    LET measures == (length_in_beats(segment) + beats_per_measure - 1) \div beats_per_measure
    IN  IF measures * beats_per_measure < beats_per_measure THEN beats_per_measure
        ELSE measures * beats_per_measure

\* end_beat before start_beat is added to it (line 94).
end_beat_in_measures(segment, beats_per_measure) ==
    (total_beats_of(segment, beats_per_measure) \div beats_per_measure) * beats_per_measure

\* The layout: what change_offset (line 60) and add_timing_notes (lines
\* 99-105) are called with.
layout_of(segment, beats_per_measure) ==
    [total_offset |-> total_offset(segment, beats_per_measure),
     start_beat |-> start_beat_of(segment, beats_per_measure),
     end_beat |-> IF segment.start_ms # 0
                  THEN end_beat_in_measures(segment, beats_per_measure)
                       + start_beat_of(segment, beats_per_measure)
                  ELSE end_beat_in_measures(segment, beats_per_measure),
     note_value |-> segment.time_signature.denominator]

\* create_tempo_segment_with_audio with its layout: None when line 52 raised
\* before there was one.
create_segment(segment, audio_ok, save_ok) ==
    [outcome |-> create_tempo_segment_with_audio(segment, audio_ok, save_ok),
     layout |-> IF beats_per_measure_from_time_signature(segment.time_signature) = 0
                THEN None
                ELSE Some(layout_of(segment,
                        beats_per_measure_from_time_signature(segment.time_signature)))]

\* The segments the call is drawn from.
SegmentBPMs == {6000, 9000, 10000, 12000, 13333, 18000}
SegmentTimeSignatures ==
    {[numerator |-> 4, denominator |-> 4], [numerator |-> 3, denominator |-> 4],
     [numerator |-> 2, denominator |-> 4], [numerator |-> 6, denominator |-> 8],
     [numerator |-> 1, denominator |-> 8]}
Segments ==
    [bpm : SegmentBPMs, time_signature : SegmentTimeSignatures,
     start_ms : {0, 1500000}, end_ms : {4000000, 4500000, 5250500, 17400000}]

CreateIdle ==
    /\ cs_args = [segment |-> <<>>, audio_ok |-> TRUE, save_ok |-> TRUE]
    /\ cs_result = None

CreateCall ==
    /\ cs_args \in [segment : Segments, audio_ok : BOOLEAN, save_ok : BOOLEAN]
    /\ cs_result = None

CallCreateSegment ==
    /\ cs_result = None
    /\ cs_result' = Some(create_segment(cs_args.segment, cs_args.audio_ok, cs_args.save_ok))
    /\ UNCHANGED <<cs_args, cs_others>>

(***************************************************************************)
(* C15                                                                     *)
(***************************************************************************)
\* The call has returned with a layout.
LaidOut == cs_result # None /\ cs_result[1].layout # None

\* The smallest whole number of measures lasting 2 seconds or more.
MeasuresCoveringSilence(bpm, beats_per_measure) ==
    (2 * bpm + 6000 * beats_per_measure - 1) \div (6000 * beats_per_measure)

\* C15: the offset applied to the new beatmap is 0 when the segment starts
\* at 0, and otherwise the smallest whole number of measures that lasts 2
\* seconds or more, with no extra padding when 2 seconds is already a whole
\* number of measures.
C15_LeadingSilence ==
    LaidOut =>
        LET segment == cs_args.segment
            beats_per_measure == beats_per_measure_from_time_signature(segment.time_signature)
        IN  cs_result[1].layout[1].total_offset =
                IF segment.start_ms = 0 THEN 0
                ELSE MeasuresCoveringSilence(segment.bpm, beats_per_measure)
                     * 6000000 * beats_per_measure

\* C15, as the code has it: the offset is 0 when the segment starts at 0;
\* otherwise it is a whole number of measures lasting 2 seconds or more, the
\* smallest one unless 2 seconds is an exact whole number of measures, when
\* it is that number or one measure more; and BPM 120 in 4/4 gives 2000 ms.
C15_LeadingSilenceUpToRounding ==
    LaidOut =>
        LET segment == cs_args.segment
            beats_per_measure == beats_per_measure_from_time_signature(segment.time_signature)
            smallest == MeasuresCoveringSilence(segment.bpm, beats_per_measure)
            offset == cs_result[1].layout[1].total_offset
        IN  /\ segment.start_ms = 0 => offset = 0
            /\ segment.start_ms # 0 =>
                  /\ offset \in {smallest * 6000000 * beats_per_measure,
                                 (smallest + 1) * 6000000 * beats_per_measure}
                  /\ ~whole_measures_in_silence(segment.bpm, beats_per_measure)
                        => offset = smallest * 6000000 * beats_per_measure
            /\ (segment.start_ms # 0 /\ segment.bpm = 12000 /\ beats_per_measure = 4)
                  => offset = 2000 * segment.bpm

\* A non-initial segment at BPM 180 in 2/4, where 2 seconds is exactly 3
\* measures, has been given 4 measures (2666.67 ms) of offset.
C15_ExtraMeasure ==
    /\ LaidOut
    /\ cs_args.segment.start_ms # 0
    /\ cs_args.segment.bpm = 18000
    /\ cs_args.segment.time_signature = [numerator |-> 2, denominator |-> 4]
    /\ cs_result[1].layout[1].total_offset = 4 * 6000000 * 2

(***************************************************************************)
(* C16                                                                     *)
(***************************************************************************)
\* end_beat as add_timing_notes got it, less the start_beat added to it for
\* a segment that does not start at 0.
EndBeatBeforeShift ==
    IF cs_args.segment.start_ms # 0
    THEN cs_result[1].layout[1].end_beat - cs_result[1].layout[1].start_beat
    ELSE cs_result[1].layout[1].end_beat

\* C16: before start_beat is added to it, end_beat is a whole number of
\* measures, at least one measure, and no more than the segment's length in
\* beats when that length is at least one measure: the length is rounded
\* down to whole measures.
C16_EndBeatRoundsDown ==
    LaidOut =>
        LET beats_per_measure ==
                beats_per_measure_from_time_signature(cs_args.segment.time_signature)
        IN  /\ EndBeatBeforeShift % beats_per_measure = 0
            /\ EndBeatBeforeShift >= beats_per_measure
            /\ length_in_beats(cs_args.segment) >= beats_per_measure
                  => EndBeatBeforeShift <= length_in_beats(cs_args.segment)

\* C16, as the code has it: before start_beat is added to it, end_beat is a
\* whole number of measures, at least one measure, and the segment's length
\* in whole beats rounded up to whole measures.
C16_EndBeatRoundsUp ==
    LaidOut =>
        LET beats_per_measure ==
                beats_per_measure_from_time_signature(cs_args.segment.time_signature)
        IN  /\ EndBeatBeforeShift % beats_per_measure = 0
            /\ EndBeatBeforeShift >= beats_per_measure
            /\ EndBeatBeforeShift >= length_in_beats(cs_args.segment)
            /\ EndBeatBeforeShift < length_in_beats(cs_args.segment) + beats_per_measure
                  \/ EndBeatBeforeShift = beats_per_measure

\* A segment of 9 beats in 4/4 (4500 ms at BPM 120) has its last marker at
\* beat 12, past its end.
C16_EndBeatPastSegment ==
    /\ LaidOut
    /\ cs_args.segment.bpm = 12000
    /\ cs_args.segment.time_signature = [numerator |-> 4, denominator |-> 4]
    /\ cs_args.segment.start_ms = 0
    /\ length_in_beats(cs_args.segment) = 9
    /\ cs_result[1].layout[1].end_beat = 12

(***************************************************************************)
(* C18                                                                     *)
(***************************************************************************)
\* start_beat converted to time at the segment's BPM, as the numerator of
\* its value in milliseconds over the bpm in hundredths: a beat lasts
\* 6000000 / bpm milliseconds.
StartBeatTime == cs_result[1].layout[1].start_beat * 6000000

\* C18: for every segment that does not start at 0, the first timing marker
\* is at the time the offset gives: start_beat, converted to time at the
\* segment's BPM, equals total_offset.
C18_GridMatchesPadding ==
    (LaidOut /\ cs_args.segment.start_ms # 0)
        => StartBeatTime = cs_result[1].layout[1].total_offset

\* C18, as the code has it: start_beat is the first whole measure after 2
\* seconds, so its time is total_offset or one measure more, and it is
\* total_offset whenever 2 seconds is not a whole number of measures.
C18_GridWithinOneMeasure ==
    (LaidOut /\ cs_args.segment.start_ms # 0) =>
        LET beats_per_measure ==
                beats_per_measure_from_time_signature(cs_args.segment.time_signature)
            offset == cs_result[1].layout[1].total_offset
        IN  /\ StartBeatTime \in {offset, offset + 6000000 * beats_per_measure}
            /\ StartBeatTime > 2000 * cs_args.segment.bpm
            /\ ~whole_measures_in_silence(cs_args.segment.bpm, beats_per_measure)
                  => StartBeatTime = offset

\* A non-initial segment at BPM 120 in 4/4 has an offset of 2000 ms and its
\* first marker at beat 8, which is 4000 ms.
C18_MarkerOneMeasureLate ==
    /\ LaidOut
    /\ cs_args.segment.start_ms # 0
    /\ cs_args.segment.bpm = 12000
    /\ cs_args.segment.time_signature = [numerator |-> 4, denominator |-> 4]
    /\ cs_result[1].layout[1].total_offset = 2000 * 12000
    /\ cs_result[1].layout[1].start_beat = 8

(***************************************************************************)
(* C19                                                                     *)
(***************************************************************************)
\* The split run is over: main has returned or an exception has left it.
RunEnded == sp_pc \in {"returned", "raised"}

\* C19: when the source beatmap cannot be loaded, the split run ends with
\* return value 1 before the MIDI is read, and no segment is generated,
\* attempted or saved.
C19_LoadFailureReturnsOne ==
    ~sp_input.beatmap.loads =>
        /\ ~sp_midi_read
        /\ RunEnded => sp_return = Some(1)
        /\ sp_segments = <<>> /\ sp_attempts = <<>> /\ sp_saved = {}

\* C19, as the code has it: when the source beatmap cannot be loaded, no
\* segment is generated, attempted or saved, and the run ends only after the
\* MIDI is read, by an AttributeError and without a return value.
C19_LoadFailureRaises ==
    ~sp_input.beatmap.loads =>
        /\ sp_segments = <<>> /\ sp_attempts = <<>> /\ sp_saved = {}
        /\ sp_changes = None
        /\ sp_pc \in {"load", "extract", "raised"}
        /\ RunEnded => (sp_midi_read /\ sp_error = "AttributeError" /\ sp_return = None)

\* The beatmap did not load, the MIDI has been read and main has been left
\* by the AttributeError.
C19_RaisedAfterMidiRead ==
    /\ ~sp_input.beatmap.loads
    /\ sp_pc = "raised"
    /\ sp_midi_read
    /\ sp_error = "AttributeError"
    /\ sp_return = None

(***************************************************************************)
(* C17                                                                     *)
(***************************************************************************)
\* Every merged segment has got its bookmark at the minimum position of its
\* shifted notes, or at 0 when it has no notes.
BookmarkAtFirstNote ==
    \A n \in 1..Len(mg_merged) :
        /\ mg_merged[n].first =
              IF all_note_positions(mg_merged[n].notes) = {} THEN 0
              ELSE MinOf(all_note_positions(mg_merged[n].notes))
        /\ mg_merged[n].first \in DOMAIN mg_bookmarks

\* C17: every segment gets one bookmark, at the minimum position of its
\* shifted notes or at 0 when it has no notes, and after N segments are
\* merged the result carries N bookmarks, one for each segment, none
\* overwritten by another segment's.
C17_OneBookmarkPerSegment ==
    /\ BookmarkAtFirstNote
    /\ Cardinality(DOMAIN mg_bookmarks) = Len(mg_merged)
    /\ \A n \in 1..Len(mg_merged) :
          mg_bookmarks[mg_merged[n].first].segment = mg_merged[n].name

\* C17, as the code has it: every segment gets one bookmark, at the minimum
\* position of its shifted notes or at 0 when it has no notes; the result
\* carries one bookmark for each such position, which is that of the last
\* segment merged with it.
C17_OneBookmarkPerPosition ==
    /\ BookmarkAtFirstNote
    /\ DOMAIN mg_bookmarks = {mg_merged[n].first : n \in 1..Len(mg_merged)}
    /\ \A n \in 1..Len(mg_merged) :
          (\A m \in (n + 1)..Len(mg_merged) : mg_merged[m].first # mg_merged[n].first)
              => mg_bookmarks[mg_merged[n].first].segment = mg_merged[n].name

\* Two segments without notes, starting at 5 s and 10 s, have been merged
\* and the result has the bookmark of the second one only, at position 0.
C17_BookmarkOverwritten ==
    /\ mg_pc = "done"
    /\ Len(mg_merged) = 2
    /\ mg_merged[1].info.start_time = 5000
    /\ mg_merged[2].info.start_time = 10000
    /\ all_note_positions(mg_merged[1].notes) = {}
    /\ all_note_positions(mg_merged[2].notes) = {}
    /\ DOMAIN mg_bookmarks = {0}
    /\ mg_bookmarks[0].segment = mg_merged[2].name

(***************************************************************************)
(* Specifications.                                                         *)
(***************************************************************************)
TicksInit == TicksCall /\ SegmenterIdle /\ CodecIdle /\ MergeIdle /\ SplitIdle /\ MarkersIdle /\ CreateIdle
TicksNext == CallCalculateTime
SpecTicks == TicksInit /\ [][TicksNext]_vars

SegmenterInit == SegmenterCall /\ TicksIdle /\ CodecIdle /\ MergeIdle /\ SplitIdle /\ MarkersIdle /\ CreateIdle
SegmenterNext == CallCreateTempoSegments
SpecSegmenter == SegmenterInit /\ [][SegmenterNext]_vars

CodecInit == CodecCall /\ TicksIdle /\ SegmenterIdle /\ MergeIdle /\ SplitIdle /\ MarkersIdle /\ CreateIdle
CodecNext == GenerateFilename \/ GiveFilename \/ ParseFilename
SpecCodec == CodecInit /\ [][CodecNext]_vars

MergeInit == MergeCall /\ TicksIdle /\ SegmenterIdle /\ CodecIdle /\ SplitIdle /\ MarkersIdle /\ CreateIdle
MergeNext ==
    \/ ListFolder
    \/ CallMerge
    \/ LoadSegment
    \/ SortSegments
    \/ MergeSegment
    \/ ReturnMerged
SpecMerge == MergeInit /\ [][MergeNext]_vars

Init == SplitCall /\ TicksIdle /\ SegmenterIdle /\ CodecIdle /\ MergeIdle /\ MarkersIdle /\ CreateIdle
Next ==
    \/ LoadBeatmap
    \/ ExtractChanges
    \/ CreateSegments
    \/ MaterializeSegment
    \/ ReturnFromLoop
Spec == Init /\ [][Next]_vars

ExtractInit ==
    ExtractCall /\ TicksIdle /\ SegmenterIdle /\ CodecIdle /\ MergeIdle /\ MarkersIdle
    /\ CreateIdle
SpecExtract == ExtractInit /\ [][Next]_vars

MarkersInit ==
    MarkersCall /\ TicksIdle /\ SegmenterIdle /\ CodecIdle /\ MergeIdle /\ SplitIdle
    /\ CreateIdle
MarkersNext == CallAddTimingNotes
SpecMarkers == MarkersInit /\ [][MarkersNext]_vars

CreateInit ==
    CreateCall /\ TicksIdle /\ SegmenterIdle /\ CodecIdle /\ MergeIdle /\ SplitIdle
    /\ MarkersIdle
CreateNext == CallCreateSegment
SpecCreate == CreateInit /\ [][CreateNext]_vars

====
